---- MODULE Spec2Model ----
(***************************************************************************)
(* teacher-scheduler-bot: the lessons table and LessonService              *)
(* (services.py) run one call at a time (Spec), as interleaved check and   *)
(* commit steps (SpecConc), check_time_conflict and the schedule queries   *)
(* on given tables (SpecCheck, SpecQuery), calls at a moment of the day    *)
(* (SpecClock); the bot's lesson and reschedule handlers (SpecNeg,         *)
(* SpecSess, SpecStale); notification after a call (SpecNotify); and the   *)
(* teachers and students tables with their cascades (SpecOrm).             *)
(***************************************************************************)
EXTENDS Bags, FiniteSets, Integers, Sequences, TLC

VARIABLES lessons, nextId, today, last, pc, req, res, conv, user_data, keyboard, requests, sent, teachers, students

vars == <<lessons, nextId, today, last, pc, req, res, conv, user_data, keyboard, requests, sent, teachers, students>>

(* ------------------------------ bounds ------------------------------- *)

\* Highest primary key the lessons table hands out in a run.
MaxId == 3
\* Number of sessions that run service calls at the same time, and the
\* highest primary key handed out while they interleave.
NumProcs == 2
MaxConcId == 2

\* While teachers and students are registered and deleted: the highest
\* primary key of the teachers and of the students table, and the highest
\* primary key the lessons table hands out.
MaxOrmId == 2
MaxOrmLessons == 2

\* Rows of the tables the conflict check is run on by itself.
MaxRows == 2
\* While the bot's reschedule conversations run: the highest primary key
\* handed out, and the number of negotiations under way at one time (open
\* conversations plus requests the teacher has not answered).
MaxNegId == 2
MaxReqs == 2

\* Teacher.id and Student.id values in use (rows of teachers / students).
Teachers == {1, 2}
Students == {1, 2}
\* Calendar dates as day numbers; the clock starts on day 1, so 0 is past.
Dates == {0, 1, 2}
\* Times of day, as the hour of time(hour, 0).
Times == {15, 16}
Ids == 1..MaxId
\* Reasons a student types; the text never steers a handler.
Reasons == {"late"}
\* Student.teacher_id of the students: both registered with teacher 1.
StudentTeacher == [s \in Students |-> 1]
Procs == 1..NumProcs

(* ------------------------------ messages ----------------------------- *)

MsgTeacherConflict == "The teacher already has a lesson scheduled at this time"
MsgStudentConflict == "The student already has a lesson scheduled at this time"
MsgPastCreate == "Cannot schedule a lesson for a past date"
MsgCreated == "Lesson created successfully"
MsgNotFound == "Lesson not found"
MsgPastReschedule == "Cannot reschedule a lesson in the past"
MsgRescheduled == "Lesson rescheduled successfully"
MsgCancelled == "Lesson cancelled"
\* Texts the bot's handlers reply or edit into their message.
BotPastCreate == "Cannot schedule a lesson for a past date."
BotTeacherBusy == "the teacher already has a lesson scheduled."
BotStudentBusy == "the student already has a lesson scheduled."
BotScheduled == "Lesson scheduled"
BotNoLessons == "You have no scheduled lessons."
BotSelectLesson == "Select lesson to reschedule:"
BotEnterReason == "Enter reason for rescheduling the lesson:"
BotSelectTime == "Select new time:"
BotNotFound == "Lesson not found."
BotPastReschedule == "Cannot reschedule a lesson in the past."
BotRequestSent == "Request to reschedule lesson sent to teacher."
BotRescheduled == "Lesson rescheduled."
BotDeclined == "Request to reschedule lesson declined."
BotLessonCancelled == "Lesson cancelled."
BotProcessCancelled == "Process cancelled."

(* ------------------------------ data --------------------------------- *)

\* A row of the lessons table.
Lesson(id, d, tm, t, s) ==
    [id |-> id, date |-> d, time |-> tm, teacher_id |-> t, student_id |-> s]

\* Python's None and a present value of an Optional.
None == <<>>
Some(x) == <<x>>

\* An ORM instance handed to the caller: its loaded column values, whether it
\* is still attached to a session, and whether its lazy relationships
\* (teacher, student) were loaded.
Instance(row, attached, rels) ==
    [row |-> row, attached |-> attached, rels |-> rels]

\* lesson.teacher / lesson.student can be read: already loaded, or the
\* instance is attached so the lazy load can run.
CanReadRelations(inst) == inst.rels \/ inst.attached

\* session.query(Lesson).filter_by(id=lesson_id): the rows with that key.
LessonById(ls, id) == {l \in ls : l.id = id}

(* ------------------------------ services ----------------------------- *)

\* Variant of check_time_conflict that never runs the student query.
check_time_conflict_teacher_only(ls, teacher_id, student_id, lesson_date, lesson_time, exclude_lesson_id) ==
    IF \E l \in ls : /\ l.teacher_id = teacher_id
                     /\ l.date = lesson_date
                     /\ l.time = lesson_time
                     /\ (exclude_lesson_id /= 0 => l.id /= exclude_lesson_id)
    THEN [ok |-> FALSE, msg |-> MsgTeacherConflict]
    ELSE [ok |-> TRUE, msg |-> ""]

\* Variant of check_time_conflict whose queries leave out the time column.
check_time_conflict_any_time(ls, teacher_id, student_id, lesson_date, lesson_time, exclude_lesson_id) ==
    LET others == {l \in ls : /\ l.date = lesson_date
                              /\ (exclude_lesson_id /= 0
                                    => l.id /= exclude_lesson_id)}
    IN  IF \E l \in others : l.teacher_id = teacher_id
        THEN [ok |-> FALSE, msg |-> MsgTeacherConflict]
        ELSE IF \E l \in others : l.student_id = student_id
        THEN [ok |-> FALSE, msg |-> MsgStudentConflict]
        ELSE [ok |-> TRUE, msg |-> ""]

\* Variant of check_time_conflict that tests the student query first.
check_time_conflict_student_first(ls, teacher_id, student_id, lesson_date, lesson_time, exclude_lesson_id) ==
    LET others == {l \in ls : /\ l.date = lesson_date
                              /\ l.time = lesson_time
                              /\ (exclude_lesson_id /= 0
                                    => l.id /= exclude_lesson_id)}
    IN  IF \E l \in others : l.student_id = student_id
        THEN [ok |-> FALSE, msg |-> MsgStudentConflict]
        ELSE IF \E l \in others : l.teacher_id = teacher_id
        THEN [ok |-> FALSE, msg |-> MsgTeacherConflict]
        ELSE [ok |-> TRUE, msg |-> ""]

\* Variant of check_time_conflict that ignores exclude_lesson_id.
check_time_conflict_no_exclude(ls, teacher_id, student_id, lesson_date, lesson_time, exclude_lesson_id) ==
    IF \E l \in ls : /\ l.teacher_id = teacher_id
                     /\ l.date = lesson_date /\ l.time = lesson_time
    THEN [ok |-> FALSE, msg |-> MsgTeacherConflict]
    ELSE IF \E l \in ls : /\ l.student_id = student_id
                          /\ l.date = lesson_date /\ l.time = lesson_time
    THEN [ok |-> FALSE, msg |-> MsgStudentConflict]
    ELSE [ok |-> TRUE, msg |-> ""]

\* check_time_conflict: exclude_lesson_id 0 stands for None (and is falsy).
check_time_conflict(ls, teacher_id, student_id, lesson_date, lesson_time, exclude_lesson_id) ==
    LET query_teacher == {l \in ls : /\ l.teacher_id = teacher_id
                                     /\ l.date = lesson_date
                                     /\ l.time = lesson_time}
        query_student == {l \in ls : /\ l.student_id = student_id
                                     /\ l.date = lesson_date
                                     /\ l.time = lesson_time}
        qt == IF exclude_lesson_id /= 0
              THEN {l \in query_teacher : l.id /= exclude_lesson_id}
              ELSE query_teacher
        qs == IF exclude_lesson_id /= 0
              THEN {l \in query_student : l.id /= exclude_lesson_id}
              ELSE query_student
    IN  IF qt /= {} THEN [ok |-> FALSE, msg |-> MsgTeacherConflict]
        ELSE IF qs /= {} THEN [ok |-> FALSE, msg |-> MsgStudentConflict]
        ELSE [ok |-> TRUE, msg |-> ""]

\* The write half of create_lesson: add, commit, refresh.
create_commit(ls, nid, teacher_id, student_id, lesson_date, lesson_time) ==
    LET lesson == Lesson(nid, lesson_date, lesson_time, teacher_id, student_id)
    IN  [ok |-> TRUE, msg |-> MsgCreated,
         ret |-> Some(Instance(lesson, TRUE, FALSE)),
         lessons |-> ls \cup {lesson}, nextId |-> nid + 1]

\* Variant of create_check without the past-date test.
create_check_no_past_test(ls, now, teacher_id, student_id, lesson_date, lesson_time) ==
    check_time_conflict(ls, teacher_id, student_id, lesson_date, lesson_time, 0)

\* The read half of create_lesson: the past-date test and the conflict check.
create_check(ls, now, teacher_id, student_id, lesson_date, lesson_time) ==
    IF lesson_date < now
    THEN [ok |-> FALSE, msg |-> MsgPastCreate]
    ELSE check_time_conflict(ls, teacher_id, student_id, lesson_date,
                             lesson_time, 0)

create_lesson(ls, nid, now, teacher_id, student_id, lesson_date, lesson_time) ==
    LET c == create_check(ls, now, teacher_id, student_id, lesson_date,
                          lesson_time)
    IN  IF ~c.ok
        THEN [ok |-> FALSE, msg |-> c.msg, ret |-> None,
              lessons |-> ls, nextId |-> nid]
        ELSE create_commit(ls, nid, teacher_id, student_id, lesson_date,
                           lesson_time)

\* Variant of reschedule_check without the conflict check.
reschedule_check_no_conflict_test(ls, now, lesson_id, new_time) ==
    LET found == LessonById(ls, lesson_id)
    IN  IF found = {} THEN [ok |-> FALSE, msg |-> MsgNotFound]
        ELSE LET lesson == CHOOSE l \in found : TRUE
             IN  IF lesson.date < now
                 THEN [ok |-> FALSE, msg |-> MsgPastReschedule]
                 ELSE [ok |-> TRUE, msg |-> ""]

\* Variant of reschedule_check without the test of the lesson's date.
reschedule_check_no_past_test(ls, now, lesson_id, new_time) ==
    LET found == LessonById(ls, lesson_id)
    IN  IF found = {} THEN [ok |-> FALSE, msg |-> MsgNotFound]
        ELSE LET lesson == CHOOSE l \in found : TRUE
             IN  check_time_conflict(ls, lesson.teacher_id, lesson.student_id,
                                     lesson.date, new_time, lesson_id)

\* The read half of reschedule_lesson: lookup, past test, conflict check.
reschedule_check(ls, now, lesson_id, new_time) ==
    LET found == LessonById(ls, lesson_id)
    IN  IF found = {} THEN [ok |-> FALSE, msg |-> MsgNotFound]
        ELSE LET lesson == CHOOSE l \in found : TRUE
             IN  IF lesson.date < now
                 THEN [ok |-> FALSE, msg |-> MsgPastReschedule]
                 ELSE check_time_conflict(ls, lesson.teacher_id,
                                          lesson.student_id, lesson.date,
                                          new_time, lesson_id)

\* Variant of reschedule_commit whose UPDATE has no WHERE clause.
reschedule_commit_every_row(ls, lesson_id, new_time) ==
    {[l EXCEPT !.time = new_time] : l \in ls}

\* The write half of reschedule_lesson: lesson.time = new_time; commit.
\* The UPDATE touches the time column of the row with that key.
reschedule_commit(ls, lesson_id, new_time) ==
    {IF l.id = lesson_id THEN [l EXCEPT !.time = new_time] ELSE l : l \in ls}

reschedule_lesson(ls, now, lesson_id, new_time) ==
    LET c == reschedule_check(ls, now, lesson_id, new_time)
    IN  IF ~c.ok
        THEN [ok |-> FALSE, msg |-> c.msg, lessons |-> ls]
        ELSE [ok |-> TRUE, msg |-> MsgRescheduled,
              lessons |-> reschedule_commit(ls, lesson_id, new_time)]

\* Variant of cancel_lesson that reports success without deleting the row.
cancel_lesson_no_delete(ls, lesson_id) ==
    LET found == LessonById(ls, lesson_id)
    IN  IF found = {}
        THEN [ok |-> FALSE, msg |-> MsgNotFound, ret |-> None, lessons |-> ls]
        ELSE [ok |-> TRUE, msg |-> MsgCancelled,
              ret |-> Some(Instance(CHOOSE l \in found : TRUE, FALSE, FALSE)),
              lessons |-> ls]

\* cancel_lesson: lesson_copy is the very instance that is deleted; after the
\* commit it is detached and its relationships were never loaded.
cancel_lesson(ls, lesson_id) ==
    LET found == LessonById(ls, lesson_id)
    IN  IF found = {}
        THEN [ok |-> FALSE, msg |-> MsgNotFound, ret |-> None, lessons |-> ls]
        ELSE LET lesson == CHOOSE l \in found : TRUE
             IN  [ok |-> TRUE, msg |-> MsgCancelled,
                  ret |-> Some(Instance(lesson, FALSE, FALSE)),
                  lessons |-> ls \ {lesson}]

(* ------------------------------ state -------------------------------- *)

\* A service call that has returned to its handler: the operation, its
\* arguments (0 for a parameter the operation does not have), the date, the
\* lessons table and the key counter it started from, and the tuple it
\* returned (ret is None for reschedule_lesson, which returns only two).
Call(op, lesson_id, t, s, d, tm, now, before, next_id, ok, msg, ret) ==
    [op |-> op, lesson_id |-> lesson_id, teacher_id |-> t, student_id |-> s,
     date |-> d, time |-> tm, now |-> now, before |-> before,
     next_id |-> next_id, ok |-> ok, msg |-> msg, ret |-> ret]

\* No call is being handled.
NoCall == Call("none", 0, 0, 0, 0, 0, 0, {}, 0, FALSE, "", None)

\* A session's call in flight between its check and its commit, and the
\* (success, message) its latest finished call returned.
Req(op, lesson_id, t, s, d, tm) ==
    [op |-> op, lesson_id |-> lesson_id, teacher_id |-> t, student_id |-> s,
     date |-> d, time |-> tm]
NoReq == Req("none", 0, 0, 0, 0, 0)
NoRes == [ok |-> FALSE, msg |-> ""]

\* context.user_data of a student's chat, as far as the reschedule handlers
\* use it: lesson_id (0: key absent) and reason ("": key absent).
UserData(lesson_id, reason) == [lesson_id |-> lesson_id, reason |-> reason]
NoUserData == UserData(0, "")

\* The bot has just started: no reschedule conversation is open for any
\* student, every user_data is empty, no prompt or request message carries
\* buttons, nothing was sent.
InitNeg ==
    /\ conv = [s \in Students |-> "END"]
    /\ user_data = [s \in Students |-> NoUserData]
    /\ keyboard = [s \in Students |-> {}]
    /\ requests = EmptyBag
    /\ sent = <<>>

\* A row of the teachers table (id, login, telegram_id) and of the students
\* table (id, teacher_id); name and contact_info decide nothing.
Teacher(id, login, telegram_id) == [id |-> id, login |-> login, telegram_id |-> telegram_id]
Student(id, teacher_id) == [id |-> id, teacher_id |-> teacher_id]

\* The logins typed and the Telegram accounts that register.
Logins == {"a", "b"}
TelegramIds == {7, 8}

\* The teachers and students the lesson handlers run for: registered before
\* the run and never deleted in it.
InitPeople ==
    /\ teachers = {Teacher(1, "a", 7), Teacher(2, "b", 8)}
    /\ students = {Student(s, StudentTeacher[s]) : s \in Students}

ormVars == <<teachers, students>>

Init ==
    /\ lessons = {}
    /\ nextId = 1
    /\ today = 1
    /\ last = NoCall
    /\ pc = [p \in Procs |-> "idle"]
    /\ req = [p \in Procs |-> NoReq]
    /\ res = [p \in Procs |-> NoRes]
    /\ InitNeg
    /\ InitPeople

concVars == <<pc, req, res>>
negVars == <<conv, user_data, keyboard, requests, sent>>

(* ------------------- one call at a time (Spec) ----------------------- *)

\* A handler calls create_lesson and gets its result.
CreateBooking(t, s, d, tm) ==
    LET r == create_lesson(lessons, nextId, today, t, s, d, tm)
    IN  /\ last = NoCall
        /\ r.nextId <= MaxId + 1
        /\ lessons' = r.lessons
        /\ nextId' = r.nextId
        /\ last' = Call("create", 0, t, s, d, tm, today, lessons, nextId,
                        r.ok, r.msg, r.ret)
        /\ UNCHANGED <<today, concVars, ormVars, negVars>>

\* A handler calls reschedule_lesson and gets its result.
RescheduleBooking(id, tm) ==
    LET r == reschedule_lesson(lessons, today, id, tm)
    IN  /\ last = NoCall
        /\ lessons' = r.lessons
        /\ last' = Call("reschedule", id, 0, 0, 0, tm, today, lessons, nextId,
                        r.ok, r.msg, None)
        /\ UNCHANGED <<nextId, today, concVars, ormVars, negVars>>

\* A handler calls cancel_lesson and gets its result.
CancelBooking(id) ==
    LET r == cancel_lesson(lessons, id)
    IN  /\ last = NoCall
        /\ lessons' = r.lessons
        /\ last' = Call("cancel", id, 0, 0, 0, 0, today, lessons, nextId,
                        r.ok, r.msg, r.ret)
        /\ UNCHANGED <<nextId, today, concVars, ormVars, negVars>>

\* The handler that made the call ends (its session is closed); the next
\* update is dispatched after it.
HandlerDone ==
    /\ last /= NoCall
    /\ last' = NoCall
    /\ UNCHANGED <<lessons, nextId, today, concVars, ormVars, negVars>>

\* datetime.now().date() moves to the next day, between two calls.
Tick ==
    /\ last = NoCall
    /\ today + 1 \in Dates
    /\ today' = today + 1
    /\ UNCHANGED <<lessons, nextId, last, concVars, ormVars, negVars>>

Next ==
    \/ \E t \in Teachers, s \in Students, d \in Dates, tm \in Times :
          CreateBooking(t, s, d, tm)
    \/ \E id \in Ids, tm \in Times : RescheduleBooking(id, tm)
    \/ \E id \in Ids : CancelBooking(id)
    \/ HandlerDone
    \/ Tick

Spec == Init /\ [][Next]_vars

(* ------- sessions interleaving check and commit (SpecConc) ----------- *)

\* create_lesson up to the conflict check, on the session's view of the
\* committed table; a failed check returns at once.
BeginCreate(p, t, s, d, tm) ==
    LET c == create_check(lessons, today, t, s, d, tm)
    IN  /\ pc[p] = "idle"
        /\ IF c.ok
           THEN /\ pc' = [pc EXCEPT ![p] = "create"]
                /\ req' = [req EXCEPT ![p] = Req("create", 0, t, s, d, tm)]
                /\ res' = [res EXCEPT ![p] = NoRes]
           ELSE /\ res' = [res EXCEPT ![p] = [ok |-> FALSE, msg |-> c.msg]]
                /\ UNCHANGED <<pc, req>>
        /\ UNCHANGED <<lessons, nextId, today, last, negVars, ormVars>>

\* create_lesson from session.add to the return: nothing looks at the table
\* again, and the lessons table carries no unique constraint.
CommitCreate(p) ==
    LET a == req[p]
        r == create_commit(lessons, nextId, a.teacher_id, a.student_id,
                           a.date, a.time)
    IN  /\ pc[p] = "create"
        /\ nextId <= MaxConcId
        /\ lessons' = r.lessons
        /\ nextId' = r.nextId
        /\ pc' = [pc EXCEPT ![p] = "idle"]
        /\ req' = [req EXCEPT ![p] = NoReq]
        /\ res' = [res EXCEPT ![p] = [ok |-> r.ok, msg |-> r.msg]]
        /\ UNCHANGED <<today, last, negVars, ormVars>>

\* reschedule_lesson up to the conflict check.
BeginReschedule(p, id, tm) ==
    LET c == reschedule_check(lessons, today, id, tm)
    IN  /\ pc[p] = "idle"
        /\ IF c.ok
           THEN /\ pc' = [pc EXCEPT ![p] = "reschedule"]
                /\ req' = [req EXCEPT ![p] = Req("reschedule", id, 0, 0, 0, tm)]
                /\ res' = [res EXCEPT ![p] = NoRes]
           ELSE /\ res' = [res EXCEPT ![p] = [ok |-> FALSE, msg |-> c.msg]]
                /\ UNCHANGED <<pc, req>>
        /\ UNCHANGED <<lessons, nextId, today, last, negVars, ormVars>>

\* reschedule_lesson from the assignment to the return.
CommitReschedule(p) ==
    /\ pc[p] = "reschedule"
    /\ lessons' = reschedule_commit(lessons, req[p].lesson_id, req[p].time)
    /\ pc' = [pc EXCEPT ![p] = "idle"]
    /\ req' = [req EXCEPT ![p] = NoReq]
    /\ res' = [res EXCEPT ![p] = [ok |-> TRUE, msg |-> MsgRescheduled]]
    /\ UNCHANGED <<nextId, today, last, negVars, ormVars>>

NextConc ==
    \/ \E p \in Procs, t \in Teachers, s \in Students, d \in Dates,
          tm \in Times : BeginCreate(p, t, s, d, tm)
    \/ \E p \in Procs : CommitCreate(p)
    \/ \E p \in Procs, id \in Ids, tm \in Times : BeginReschedule(p, id, tm)
    \/ \E p \in Procs : CommitReschedule(p)

SpecConc == Init /\ [][NextConc]_vars

(* ------------- the conflict check on its own (SpecCheck) ------------- *)

\* The column values a row of the lessons table can hold besides its key.
Rows == [date : Dates, time : Times, teacher_id : Teachers, student_id : Students]

\* The lessons tables of up to k rows with the keys 1..n, double-booked ones
\* included: the tables check_time_conflict can be handed.
Tables(k) ==
    UNION {{{Lesson(i, f[i].date, f[i].time, f[i].teacher_id, f[i].student_id) : i \in 1..n} : f \in [1..n -> Rows]} : n \in 0..k}

\* The database holds any such table when check_time_conflict is called.
InitCheck ==
    /\ lessons \in Tables(MaxRows)
    /\ nextId = Cardinality(lessons) + 1
    /\ today = 1
    /\ last = NoCall
    /\ pc = [p \in Procs |-> "idle"]
    /\ req = [p \in Procs |-> NoReq]
    /\ res = [p \in Procs |-> NoRes]
    /\ InitNeg
    /\ InitPeople

\* A caller runs check_time_conflict (ex = 0: no exclude_lesson_id) and gets
\* its result; the function only queries.
CheckConflict(t, s, d, tm, ex) ==
    LET r == check_time_conflict(lessons, t, s, d, tm, ex)
    IN  /\ last = NoCall
        /\ last' = Call("check", ex, t, s, d, tm, today, lessons, nextId, r.ok, r.msg, None)
        /\ UNCHANGED <<lessons, nextId, today, concVars, ormVars, negVars>>

NextCheck ==
    \/ \E t \in Teachers, s \in Students, d \in Dates, tm \in Times, ex \in 0..MaxId : CheckConflict(t, s, d, tm, ex)
    \/ HandlerDone

SpecCheck == InitCheck /\ [][NextCheck]_vars

(* ------------- the bot's reschedule negotiation (SpecNeg) ------------ *)

\* A message NotificationService sends to a student: which one, to whom, the
\* values its text carries. No handler looks at what the notify_* call
\* returns, so whether bot.send_message went through changes no state.
Note(kind, to, args) == [kind |-> kind, to |-> to, args |-> args]

\* notify_student_lesson_created / notify_student_lesson_cancelled: the text
\* carries the date and the time. Every student of the model registered by
\* /register_student and so has a telegram_id.
notify_student_lesson_created(student, lesson_date, lesson_time) ==
    Note("created", student, <<lesson_date, lesson_time>>)
notify_student_lesson_cancelled(student, lesson_date, lesson_time) ==
    Note("cancelled", student, <<lesson_date, lesson_time>>)

\* Variant of notify_student_reschedule_result whose accepted text carries
\* no date and no time.
notify_student_reschedule_result_bare(student, lesson_date, new_time, accepted) ==
    IF accepted THEN Note("rescheduled", student, <<>>)
    ELSE Note("declined", student, <<>>)

\* notify_student_reschedule_result: the accepted text carries lesson_date
\* and new_time, the declined text carries neither.
notify_student_reschedule_result(student, lesson_date, new_time, accepted) ==
    IF accepted THEN Note("rescheduled", student, <<lesson_date, new_time>>)
    ELSE Note("declined", student, <<>>)

\* The message confirm_reschedule sends to the teacher: the callback data of
\* its two buttons (lesson id and hour) and, in its text, the lesson's
\* student and the reason. `requests` is the bag of those whose buttons are
\* still there.
Request(lesson_id, hour, reason, student) == [lesson_id |-> lesson_id, hour |-> hour, reason |-> reason, student |-> student]

\* Negotiations under way: open conversations and unanswered requests.
UnderWay == BagCardinality(requests) + Cardinality({s \in Students : conv[s] /= "END"})

\* Variant of confirm_lesson that notifies the student before it calls
\* create_lesson, whatever the call then returns.
confirm_lesson_notify_first(s, d, tm) ==
    LET t == StudentTeacher[s]
        r == create_lesson(lessons, nextId, today, t, s, d, tm)
        msg == IF d < today THEN BotPastCreate
               ELSE IF \E l \in lessons : l.teacher_id = t /\ l.date = d /\ l.time = tm THEN BotTeacherBusy
               ELSE IF \E l \in lessons : l.student_id = s /\ l.date = d /\ l.time = tm THEN BotStudentBusy
               ELSE IF ~r.ok THEN r.msg
               ELSE BotScheduled
        ok == msg = BotScheduled
    IN  /\ last = NoCall
        /\ nextId <= MaxNegId
        /\ lessons' = IF ok THEN r.lessons ELSE lessons
        /\ nextId' = IF ok THEN r.nextId ELSE nextId
        /\ sent' = <<notify_student_lesson_created(s, d, tm)>>
        /\ last' = Call("confirm_lesson", 0, t, s, d, tm, today, lessons, nextId, ok, msg, None)
        /\ UNCHANGED <<today, concVars, ormVars, conv, user_data, keyboard, requests>>

\* confirm_lesson: the teacher of student s picks (d, tm) for a lesson; the
\* handler tests the date and both slots itself, then calls create_lesson
\* and notifies the student.
ConfirmLesson(s, d, tm) ==
    LET t == StudentTeacher[s]
        r == create_lesson(lessons, nextId, today, t, s, d, tm)
        msg == IF d < today THEN BotPastCreate
               ELSE IF \E l \in lessons : l.teacher_id = t /\ l.date = d /\ l.time = tm THEN BotTeacherBusy
               ELSE IF \E l \in lessons : l.student_id = s /\ l.date = d /\ l.time = tm THEN BotStudentBusy
               ELSE IF ~r.ok THEN r.msg
               ELSE BotScheduled
        ok == msg = BotScheduled
    IN  /\ last = NoCall
        /\ nextId <= MaxNegId
        /\ lessons' = IF ok THEN r.lessons ELSE lessons
        /\ nextId' = IF ok THEN r.nextId ELSE nextId
        /\ sent' = IF ok THEN <<notify_student_lesson_created(s, d, tm)>> ELSE <<>>
        /\ last' = Call("confirm_lesson", 0, t, s, d, tm, today, lessons, nextId, ok, msg, None)
        /\ UNCHANGED <<today, concVars, ormVars, conv, user_data, keyboard, requests>>

\* confirm_cancel_lesson: the teacher presses a CANCEL-LESSON button.
\* cancel_lesson commits the delete; the handler then reads lesson.student on
\* the instance it got back. If that can be read the student is notified and
\* the message is edited; if not, the read raises and the handler ends there.
ConfirmCancelLesson(id) ==
    LET r == cancel_lesson(lessons, id)
        readable == r.ok /\ CanReadRelations(r.ret[1])
    IN  /\ last = NoCall
        /\ id < nextId
        /\ lessons' = r.lessons
        /\ sent' = IF readable
                   THEN LET l == r.ret[1].row
                        IN  <<notify_student_lesson_cancelled(l.student_id, l.date, l.time)>>
                   ELSE <<>>
        /\ last' = Call("confirm_cancel_lesson", id, 0, 0, 0, 0, today, lessons, nextId, r.ok, IF readable THEN BotLessonCancelled ELSE IF r.ok THEN "" ELSE r.msg, None)
        /\ UNCHANGED <<nextId, today, concVars, ormVars, conv, user_data, keyboard, requests>>

\* request_reschedule: student s sends /reschedule with no conversation
\* open; the reply lists the student's lessons from today on, one
\* SELECT-LESSON button each, or says there are none.
RequestReschedule(s) ==
    LET future == {l \in lessons : l.student_id = s /\ l.date >= today}
    IN  /\ last = NoCall
        /\ conv[s] = "END"
        /\ UnderWay < MaxReqs
        /\ IF future = {}
           THEN UNCHANGED <<conv, keyboard>>
           ELSE /\ conv' = [conv EXCEPT ![s] = "SELECT_LESSON"]
                /\ keyboard' = [keyboard EXCEPT ![s] = {l.id : l \in future}]
        /\ sent' = <<>>
        /\ last' = Call("request_reschedule", 0, 0, s, 0, 0, today, lessons, nextId, future /= {}, IF future = {} THEN BotNoLessons ELSE BotSelectLesson, None)
        /\ UNCHANGED <<lessons, nextId, today, concVars, ormVars, user_data, requests>>

\* Variant of select_lesson that returns NEW_TIME instead of REASON.
select_lesson_skipping_reason(s, id) ==
    /\ last = NoCall
    /\ conv[s] = "SELECT_LESSON"
    /\ id \in keyboard[s]
    /\ user_data' = [user_data EXCEPT ![s].lesson_id = id]
    /\ keyboard' = [keyboard EXCEPT ![s] = {}]
    /\ conv' = [conv EXCEPT ![s] = "NEW_TIME"]
    /\ sent' = <<>>
    /\ last' = Call("select_lesson", id, 0, s, 0, 0, today, lessons, nextId, TRUE, BotEnterReason, None)
    /\ UNCHANGED <<lessons, nextId, today, concVars, ormVars, requests>>

\* select_lesson: the student presses a SELECT-LESSON button of the prompt;
\* the id goes into user_data, the prompt is edited (its buttons go) and the
\* conversation moves on. Nothing is looked up.
SelectLesson(s, id) ==
    /\ last = NoCall
    /\ conv[s] = "SELECT_LESSON"
    /\ id \in keyboard[s]
    /\ user_data' = [user_data EXCEPT ![s].lesson_id = id]
    /\ keyboard' = [keyboard EXCEPT ![s] = {}]
    /\ conv' = [conv EXCEPT ![s] = "REASON"]
    /\ sent' = <<>>
    /\ last' = Call("select_lesson", id, 0, s, 0, 0, today, lessons, nextId, TRUE, BotEnterReason, None)
    /\ UNCHANGED <<lessons, nextId, today, concVars, ormVars, requests>>

\* Variant of reschedule_reason that keeps the reason in one place for all
\* users (bot_data in place of user_data).
reschedule_reason_shared(s, reason) ==
    /\ last = NoCall
    /\ conv[s] = "REASON"
    /\ user_data' = [o \in Students |-> [user_data[o] EXCEPT !.reason = reason]]
    /\ conv' = [conv EXCEPT ![s] = "NEW_TIME"]
    /\ sent' = <<>>
    /\ last' = Call("reschedule_reason", user_data[s].lesson_id, 0, s, 0, 0, today, lessons, nextId, TRUE, BotSelectTime, None)
    /\ UNCHANGED <<lessons, nextId, today, concVars, ormVars, keyboard, requests>>

\* reschedule_reason: the student types the reason.
RescheduleReason(s, reason) ==
    /\ last = NoCall
    /\ conv[s] = "REASON"
    /\ user_data' = [user_data EXCEPT ![s].reason = reason]
    /\ conv' = [conv EXCEPT ![s] = "NEW_TIME"]
    /\ sent' = <<>>
    /\ last' = Call("reschedule_reason", user_data[s].lesson_id, 0, s, 0, 0, today, lessons, nextId, TRUE, BotSelectTime, None)
    /\ UNCHANGED <<lessons, nextId, today, concVars, ormVars, keyboard, requests>>

\* Variant of confirm_reschedule_msg without the test of the lesson's date.
confirm_reschedule_msg_no_past_test(ls, now, lesson_id, hour) ==
    LET found == LessonById(ls, lesson_id)
    IN  IF found = {} THEN BotNotFound
        ELSE LET lesson == CHOOSE l \in found : TRUE
             IN  IF \E l \in ls : l.teacher_id = lesson.teacher_id /\ l.date = lesson.date /\ l.time = hour THEN BotTeacherBusy
                 ELSE IF \E l \in ls : l.student_id = lesson.student_id /\ l.date = lesson.date /\ l.time = hour THEN BotStudentBusy
                 ELSE BotRequestSent

\* What confirm_reschedule answers for the lesson id in user_data and the
\* hour pressed: lesson missing, lesson past, a slot query (which does not
\* leave the lesson itself out) finding a row, or the request going out.
confirm_reschedule_msg(ls, now, lesson_id, hour) ==
    LET found == LessonById(ls, lesson_id)
    IN  IF found = {} THEN BotNotFound
        ELSE LET lesson == CHOOSE l \in found : TRUE
             IN  IF lesson.date < now THEN BotPastReschedule
                 ELSE IF \E l \in ls : l.teacher_id = lesson.teacher_id /\ l.date = lesson.date /\ l.time = hour THEN BotTeacherBusy
                 ELSE IF \E l \in ls : l.student_id = lesson.student_id /\ l.date = lesson.date /\ l.time = hour THEN BotStudentBusy
                 ELSE BotRequestSent

\* Variant of confirm_reschedule that writes the hour pressed to the lesson
\* when it sends the request.
confirm_reschedule_writing(s, hour) ==
    LET lesson_id == user_data[s].lesson_id
        msg == confirm_reschedule_msg(lessons, today, lesson_id, hour)
    IN  /\ last = NoCall
        /\ conv[s] = "NEW_TIME"
        /\ conv' = [conv EXCEPT ![s] = "END"]
        /\ requests' = IF msg = BotRequestSent
                       THEN LET lesson == CHOOSE l \in LessonById(lessons, lesson_id) : TRUE
                            IN  requests (+) SetToBag({Request(lesson_id, hour, user_data[s].reason, lesson.student_id)})
                       ELSE requests
        /\ lessons' = IF msg = BotRequestSent THEN reschedule_commit(lessons, lesson_id, hour) ELSE lessons
        /\ sent' = <<>>
        /\ last' = Call("confirm_reschedule", lesson_id, 0, s, 0, hour, today, lessons, nextId, msg = BotRequestSent, msg, None)
        /\ UNCHANGED <<nextId, today, concVars, ormVars, user_data, keyboard>>

\* confirm_reschedule: the student presses a NEW-TIME button. Whatever the
\* answer, the conversation ends; the teacher gets the request message with
\* its two buttons only when every test passed.
ConfirmReschedule(s, hour) ==
    LET lesson_id == user_data[s].lesson_id
        msg == confirm_reschedule_msg(lessons, today, lesson_id, hour)
    IN  /\ last = NoCall
        /\ conv[s] = "NEW_TIME"
        /\ conv' = [conv EXCEPT ![s] = "END"]
        /\ requests' = IF msg = BotRequestSent
                       THEN LET lesson == CHOOSE l \in LessonById(lessons, lesson_id) : TRUE
                            IN  requests (+) SetToBag({Request(lesson_id, hour, user_data[s].reason, lesson.student_id)})
                       ELSE requests
        /\ sent' = <<>>
        /\ last' = Call("confirm_reschedule", lesson_id, 0, s, 0, hour, today, lessons, nextId, msg = BotRequestSent, msg, None)
        /\ UNCHANGED <<lessons, nextId, today, concVars, ormVars, user_data, keyboard>>

\* cancel: the /cancel fallback of the reschedule conversation.
CancelConversation(s) ==
    /\ last = NoCall
    /\ conv[s] /= "END"
    /\ conv' = [conv EXCEPT ![s] = "END"]
    /\ keyboard' = [keyboard EXCEPT ![s] = {}]
    /\ sent' = <<>>
    /\ last' = Call("cancel", 0, 0, s, 0, 0, today, lessons, nextId, TRUE, BotProcessCancelled, None)
    /\ UNCHANGED <<lessons, nextId, today, concVars, ormVars, user_data, requests>>

\* Variant of the unhandled /cancel that withdraws the student's requests.
cancel_withdrawing_requests(s) ==
    /\ last = NoCall
    /\ conv[s] = "END"
    /\ \E q \in BagToSet(requests) : q.student = s
    /\ requests' = [q \in {x \in BagToSet(requests) : x.student /= s} |-> requests[q]]
    /\ sent' = <<>>
    /\ last' = Call("cancel", 0, 0, s, 0, 0, today, lessons, nextId, TRUE, BotProcessCancelled, None)
    /\ UNCHANGED <<lessons, nextId, today, concVars, ormVars, conv, user_data, keyboard>>

\* /cancel sent by a student who has no conversation open while a request
\* for one of the student's lessons awaits the teacher. The command is a
\* fallback of the conversation handlers only and an entry point of none, so
\* no handler takes the update: nothing is replied and nothing changes.
CancelIgnored(s) ==
    /\ last = NoCall
    /\ conv[s] = "END"
    /\ \E q \in BagToSet(requests) : q.student = s
    /\ sent' = <<>>
    /\ last' = Call("cancel", 0, 0, s, 0, 0, today, lessons, nextId, FALSE, "", None)
    /\ UNCHANGED <<lessons, nextId, today, concVars, ormVars, conv, user_data, keyboard, requests>>

\* Variant of accept_reschedule that takes the lesson from the user_data of
\* the student instead of the callback data.
accept_reschedule_from_user_data(q) ==
    LET lesson_id == user_data[q.student].lesson_id
        r == reschedule_lesson(lessons, today, lesson_id, q.hour)
    IN  /\ last = NoCall
        /\ BagIn(q, requests)
        /\ lessons' = r.lessons
        /\ sent' = IF r.ok
                   THEN LET lesson == CHOOSE l \in LessonById(r.lessons, lesson_id) : TRUE
                        IN  <<notify_student_reschedule_result(lesson.student_id, lesson.date, q.hour, TRUE)>>
                   ELSE <<>>
        /\ requests' = requests (-) SetToBag({q})
        /\ last' = Call("accept_reschedule", lesson_id, 0, q.student, 0, q.hour, today, lessons, nextId, r.ok, IF r.ok THEN BotRescheduled ELSE r.msg, None)
        /\ UNCHANGED <<nextId, today, concVars, ormVars, conv, user_data, keyboard>>

\* Variant of accept_reschedule that notifies the student before it calls
\* reschedule_lesson, whatever the call then returns.
accept_reschedule_notify_first(q) ==
    LET r == reschedule_lesson(lessons, today, q.lesson_id, q.hour)
        found == LessonById(lessons, q.lesson_id)
    IN  /\ last = NoCall
        /\ BagIn(q, requests)
        /\ lessons' = r.lessons
        /\ sent' = IF found /= {}
                   THEN LET lesson == CHOOSE l \in found : TRUE
                        IN  <<notify_student_reschedule_result(lesson.student_id, lesson.date, q.hour, TRUE)>>
                   ELSE <<>>
        /\ requests' = requests (-) SetToBag({q})
        /\ last' = Call("accept_reschedule", q.lesson_id, 0, q.student, 0, q.hour, today, lessons, nextId, r.ok, IF r.ok THEN BotRescheduled ELSE r.msg, None)
        /\ UNCHANGED <<nextId, today, concVars, ormVars, conv, user_data, keyboard>>

\* accept_reschedule: the teacher presses Reschedule on request q.
\* reschedule_lesson runs on the id and hour of the button; on failure its
\* message is edited into the request, on success the lesson is read again,
\* its student is notified and the request is edited. Either edit takes the
\* buttons away.
AcceptReschedule(q) ==
    LET r == reschedule_lesson(lessons, today, q.lesson_id, q.hour)
    IN  /\ last = NoCall
        /\ BagIn(q, requests)
        /\ lessons' = r.lessons
        /\ sent' = IF r.ok
                   THEN LET lesson == CHOOSE l \in LessonById(r.lessons, q.lesson_id) : TRUE
                        IN  <<notify_student_reschedule_result(lesson.student_id, lesson.date, q.hour, TRUE)>>
                   ELSE <<>>
        /\ requests' = requests (-) SetToBag({q})
        /\ last' = Call("accept_reschedule", q.lesson_id, 0, q.student, 0, q.hour, today, lessons, nextId, r.ok, IF r.ok THEN BotRescheduled ELSE r.msg, None)
        /\ UNCHANGED <<nextId, today, concVars, ormVars, conv, user_data, keyboard>>

\* Variant of decline_reschedule that does not notify the student.
decline_reschedule_silent(q) ==
    LET found == LessonById(lessons, q.lesson_id)
    IN  /\ last = NoCall
        /\ BagIn(q, requests)
        /\ sent' = <<>>
        /\ requests' = requests (-) SetToBag({q})
        /\ last' = Call("decline_reschedule", q.lesson_id, 0, q.student, 0, q.hour, today, lessons, nextId, found /= {}, IF found = {} THEN BotNotFound ELSE BotDeclined, None)
        /\ UNCHANGED <<lessons, nextId, today, concVars, ormVars, conv, user_data, keyboard>>

\* Variant of decline_reschedule that sends the decline message to the
\* student named in the request whether or not the lesson is found.
decline_reschedule_without_lookup(q) ==
    LET found == LessonById(lessons, q.lesson_id)
    IN  /\ last = NoCall
        /\ BagIn(q, requests)
        /\ sent' = <<notify_student_reschedule_result(q.student, 0, 0, FALSE)>>
        /\ requests' = requests (-) SetToBag({q})
        /\ last' = Call("decline_reschedule", q.lesson_id, 0, q.student, 0, q.hour, today, lessons, nextId, found /= {}, IF found = {} THEN BotNotFound ELSE BotDeclined, None)
        /\ UNCHANGED <<lessons, nextId, today, concVars, ormVars, conv, user_data, keyboard>>

\* decline_reschedule: the teacher presses Decline on request q. The
\* lesson is looked up; if it is there its student is notified with
\* lesson.time and accepted=False. The request is edited either way.
DeclineReschedule(q) ==
    LET found == LessonById(lessons, q.lesson_id)
    IN  /\ last = NoCall
        /\ BagIn(q, requests)
        /\ sent' = IF found /= {}
                   THEN LET lesson == CHOOSE l \in found : TRUE
                        IN  <<notify_student_reschedule_result(lesson.student_id, lesson.date, lesson.time, FALSE)>>
                   ELSE <<>>
        /\ requests' = requests (-) SetToBag({q})
        /\ last' = Call("decline_reschedule", q.lesson_id, 0, q.student, 0, q.hour, today, lessons, nextId, found /= {}, IF found = {} THEN BotNotFound ELSE BotDeclined, None)
        /\ UNCHANGED <<lessons, nextId, today, concVars, ormVars, conv, user_data, keyboard>>

\* The handler returns; the dispatcher takes the next update.
NegDone ==
    /\ last /= NoCall
    /\ last' = NoCall
    /\ sent' = <<>>
    /\ UNCHANGED <<lessons, nextId, today, concVars, ormVars, conv, user_data, keyboard, requests>>

NextNeg ==
    \/ \E s \in Students, d \in Dates, tm \in Times : ConfirmLesson(s, d, tm)
    \/ \E id \in 1..MaxNegId : ConfirmCancelLesson(id)
    \/ \E s \in Students : RequestReschedule(s)
    \/ \E s \in Students, id \in 1..MaxNegId : SelectLesson(s, id)
    \/ \E s \in Students, reason \in Reasons : RescheduleReason(s, reason)
    \/ \E s \in Students, hour \in Times : ConfirmReschedule(s, hour)
    \/ \E s \in Students : CancelConversation(s)
    \/ \E s \in Students : CancelIgnored(s)
    \/ \E q \in BagToSet(requests) : AcceptReschedule(q)
    \/ \E q \in BagToSet(requests) : DeclineReschedule(q)
    \/ NegDone
    \/ Tick

SpecNeg == Init /\ [][NextNeg]_vars

(* ------------- SpecNotify: a service call, then the notification ------ *)

\* What bot.send_message does for a notification: it goes through, it
\* raises (network or Telegram error), or it is never called because the
\* student has no telegram_id (a student entered by /add_student).
Outcomes == {"sent", "error", "no_telegram_id"}

LogSendError == "Error sending notification to student"

\* Variant of notify whose except clause logs and raises again.
notify_reraising(note, outcome) ==
    IF outcome = "no_telegram_id"
    THEN [ret |-> FALSE, raised |-> FALSE, log |-> "", out |-> <<>>]
    ELSE IF outcome = "sent"
         THEN [ret |-> TRUE, raised |-> FALSE, log |-> "", out |-> <<note>>]
         ELSE [ret |-> FALSE, raised |-> TRUE, log |-> LogSendError, out |-> <<>>]

\* The body the notify_* methods of NotificationService share: False at
\* once without a telegram_id; else send_message inside try, True when it
\* returned, and on any Exception the error is logged and False returned.
notify(note, outcome) ==
    IF outcome = "no_telegram_id"
    THEN [ret |-> FALSE, raised |-> FALSE, log |-> "", out |-> <<>>]
    ELSE IF outcome = "sent"
         THEN [ret |-> TRUE, raised |-> FALSE, log |-> "", out |-> <<note>>]
         ELSE [ret |-> FALSE, raised |-> FALSE, log |-> LogSendError, out |-> <<>>]

NotifyOps == {"notify_created", "notify_rescheduled", "notify_cancelled"}

\* The handler, after its service call returned success, notifies the
\* student: confirm_lesson after create_lesson, accept_reschedule after
\* reschedule_lesson (it reads the lesson again), confirm_cancel_lesson
\* after cancel_lesson if lesson.student can be read on the instance it got.
\* The service has committed; an exception leaving the handler makes
\* get_session roll back what is uncommitted, which is nothing.
NotifyStudent(outcome) ==
    /\ last.ok
    /\ \/ last.op \in {"create", "reschedule"}
       \/ last.op = "cancel" /\ CanReadRelations(last.ret[1])
    /\ LET note == IF last.op = "create"
                   THEN notify_student_lesson_created(last.student_id, last.date, last.time)
                   ELSE IF last.op = "reschedule"
                   THEN LET lesson == CHOOSE l \in LessonById(lessons, last.lesson_id) : TRUE
                        IN  notify_student_reschedule_result(lesson.student_id, lesson.date, last.time, TRUE)
                   ELSE LET lesson == last.ret[1].row
                        IN  notify_student_lesson_cancelled(lesson.student_id, lesson.date, lesson.time)
           r == notify(note, outcome)
       IN  /\ sent' = r.out
           /\ last' = [last EXCEPT !.op = IF last.op = "create" THEN "notify_created"
                                          ELSE IF last.op = "reschedule" THEN "notify_rescheduled"
                                          ELSE "notify_cancelled",
                                   !.ok = r.ret,
                                   !.msg = r.log,
                                   !.ret = IF r.raised THEN Some("Exception") ELSE None]
    /\ UNCHANGED <<lessons, nextId, today, concVars, ormVars, conv, user_data, keyboard, requests>>

NextNotify ==
    \/ \E t \in Teachers, s \in Students, d \in Dates, tm \in Times : CreateBooking(t, s, d, tm)
    \/ \E id \in Ids, tm \in Times : RescheduleBooking(id, tm)
    \/ \E id \in Ids : CancelBooking(id)
    \/ \E outcome \in Outcomes : NotifyStudent(outcome)
    \/ NegDone
    \/ Tick

SpecNotify == Init /\ [][NextNotify]_vars

(* ---------------- SpecStale: a button pressed twice ------------------- *)

\* accept_reschedule and decline_reschedule are registered on the dispatcher
\* by pattern alone and read everything they use from the callback data. A
\* press made on the request message before the edit of the first answer
\* reached the teacher's client is the next update in the queue; it is
\* handled like the first, the request it belongs to being answered already.

\* accept_reschedule on a second press of Reschedule on the request just
\* answered.
AcceptRescheduleAgain ==
    LET r == reschedule_lesson(lessons, today, last.lesson_id, last.time)
    IN  /\ last.op \in {"accept_reschedule", "decline_reschedule"}
        /\ lessons' = r.lessons
        /\ sent' = IF r.ok
                   THEN LET lesson == CHOOSE l \in LessonById(r.lessons, last.lesson_id) : TRUE
                        IN  <<notify_student_reschedule_result(lesson.student_id, lesson.date, last.time, TRUE)>>
                   ELSE <<>>
        /\ last' = Call("accept_reschedule", last.lesson_id, 0, last.student_id, 0, last.time, today, lessons, nextId, r.ok, IF r.ok THEN BotRescheduled ELSE r.msg, None)
        /\ UNCHANGED <<nextId, today, concVars, ormVars, conv, user_data, keyboard, requests>>

\* decline_reschedule on a second press of Decline on the request just
\* answered.
DeclineRescheduleAgain ==
    LET found == LessonById(lessons, last.lesson_id)
    IN  /\ last.op \in {"accept_reschedule", "decline_reschedule"}
        /\ sent' = IF found /= {}
                   THEN LET lesson == CHOOSE l \in found : TRUE
                        IN  <<notify_student_reschedule_result(lesson.student_id, lesson.date, lesson.time, FALSE)>>
                   ELSE <<>>
        /\ last' = Call("decline_reschedule", last.lesson_id, 0, last.student_id, 0, last.time, today, lessons, nextId, found /= {}, IF found = {} THEN BotNotFound ELSE BotDeclined, None)
        /\ UNCHANGED <<lessons, nextId, today, concVars, ormVars, conv, user_data, keyboard, requests>>

NextStale ==
    \/ NextNeg
    \/ AcceptRescheduleAgain
    \/ DeclineRescheduleAgain

SpecStale == Init /\ [][NextStale]_vars

(* ------------- SpecSess: conversations of several students ------------ *)

\* The reasons typed in SpecSess: two texts, so that the reason of one
\* student can be told from that of another.
SessReasons == {"late", "ill"}

\* The handlers of the reschedule conversation and of the teacher's answer,
\* with lessons entered by confirm_lesson, on one day.
NextSess ==
    \/ \E s \in Students, d \in Dates, tm \in Times : ConfirmLesson(s, d, tm)
    \/ \E s \in Students : RequestReschedule(s)
    \/ \E s \in Students, id \in 1..MaxNegId : SelectLesson(s, id)
    \/ \E s \in Students, reason \in SessReasons : RescheduleReason(s, reason)
    \/ \E s \in Students, hour \in Times : ConfirmReschedule(s, hour)
    \/ \E s \in Students : CancelConversation(s)
    \/ \E q \in BagToSet(requests) : AcceptReschedule(q)
    \/ \E q \in BagToSet(requests) : DeclineReschedule(q)
    \/ NegDone

SpecSess == Init /\ [][NextSess]_vars

(* ------ SpecOrm: registration and deletion of teachers and students ---- *)

BotLoginInUse == "This login is already in use. Please choose another one."
BotTeacherRegistered == "You have successfully registered as a teacher."
IntegrityError == "IntegrityError"

\* Variant of register_teacher with no unique constraint on telegram_id.
register_teacher_login_only(ts, id, login, telegram_id) ==
    IF \E t \in ts : t.login = login
    THEN [ok |-> FALSE, msg |-> BotLoginInUse, teachers |-> ts]
    ELSE [ok |-> TRUE, msg |-> BotTeacherRegistered, teachers |-> ts \cup {Teacher(id, login, telegram_id)}]

\* register_teacher_login: the login is looked up and refused if a teacher
\* has it; else the row is added and committed, and the commit raises
\* IntegrityError if the telegram_id is in the table already (unique=True),
\* the session being closed with nothing stored.
register_teacher(ts, id, login, telegram_id) ==
    IF \E t \in ts : t.login = login
    THEN [ok |-> FALSE, msg |-> BotLoginInUse, teachers |-> ts]
    ELSE IF \E t \in ts : t.telegram_id = telegram_id
         THEN [ok |-> FALSE, msg |-> IntegrityError, teachers |-> ts]
         ELSE [ok |-> TRUE, msg |-> BotTeacherRegistered, teachers |-> ts \cup {Teacher(id, login, telegram_id)}]

\* Variant of delete_teacher in which Student.lessons has no delete cascade.
delete_teacher_keeping_student_lessons(ts, ss, ls, id) ==
    [teachers |-> {t \in ts : t.id /= id},
     students |-> {s \in ss : s.teacher_id /= id},
     lessons |-> {l \in ls : l.teacher_id /= id}]

\* session.delete(teacher) and commit: the cascade of Teacher.students
\* deletes the teacher's students, and with each of them the cascade of
\* Student.lessons its lessons; the cascade of Teacher.lessons deletes the
\* lessons the teacher gives.
delete_teacher(ts, ss, ls, id) ==
    LET owned == {s.id : s \in {x \in ss : x.teacher_id = id}}
    IN  [teachers |-> {t \in ts : t.id /= id},
         students |-> {s \in ss : s.id \notin owned},
         lessons |-> {l \in ls : l.teacher_id /= id /\ l.student_id \notin owned}]

\* Variant of delete_student in which Student.lessons has no delete cascade.
delete_student_keeping_lessons(ss, ls, id) ==
    [students |-> {s \in ss : s.id /= id}, lessons |-> ls]

\* session.delete(student) and commit: the cascade of Student.lessons
\* deletes the student's lessons.
delete_student(ss, ls, id) ==
    [students |-> {s \in ss : s.id /= id},
     lessons |-> {l \in ls : l.student_id /= id}]

\* Primary keys a table can hand out next: one that no row has (the highest
\* so far plus one, or a key freed by a delete, as the engine decides).
FreeIds(rows) == (1..MaxOrmId) \ {r.id : r \in rows}

InitOrm ==
    /\ lessons = {}
    /\ nextId = 1
    /\ today = 1
    /\ last = NoCall
    /\ pc = [p \in Procs |-> "idle"]
    /\ req = [p \in Procs |-> NoReq]
    /\ res = [p \in Procs |-> NoRes]
    /\ InitNeg
    /\ teachers = {}
    /\ students = {}

\* A Telegram account finishes /register_teacher with a login.
RegisterTeacher(login, telegram_id) ==
    /\ last = NoCall
    /\ \E id \in FreeIds(teachers) :
          LET r == register_teacher(teachers, id, login, telegram_id)
          IN  /\ teachers' = r.teachers
              /\ last' = Call("register_teacher", 0, IF r.ok THEN id ELSE 0, 0, 0, 0, today, lessons, nextId, r.ok, r.msg, Some(<<login, telegram_id>>))
    /\ UNCHANGED <<lessons, nextId, today, concVars, negVars, students>>

\* A student is entered for teacher t (/register_student with the teacher's
\* login, or /add_student by the teacher).
RegisterStudent(t) ==
    /\ last = NoCall
    /\ \E x \in teachers : x.id = t
    /\ \E id \in FreeIds(students) :
          /\ students' = students \cup {Student(id, t)}
          /\ last' = Call("register_student", 0, t, id, 0, 0, today, lessons, nextId, TRUE, "", None)
    /\ UNCHANGED <<lessons, nextId, today, concVars, negVars, teachers>>

\* create_lesson for a teacher and a student that are in their tables.
AddLesson(t, s, tm) ==
    LET r == create_lesson(lessons, nextId, today, t, s, today, tm)
    IN  /\ last = NoCall
        /\ nextId <= MaxOrmLessons
        /\ \E x \in teachers : x.id = t
        /\ \E x \in students : x.id = s
        /\ lessons' = r.lessons
        /\ nextId' = r.nextId
        /\ last' = Call("create", 0, t, s, today, tm, today, lessons, nextId, r.ok, r.msg, r.ret)
        /\ UNCHANGED <<today, concVars, negVars, teachers, students>>

\* session.delete on a teacher that is in the table.
DeleteTeacher(id) ==
    LET r == delete_teacher(teachers, students, lessons, id)
    IN  /\ last = NoCall
        /\ \E x \in teachers : x.id = id
        /\ teachers' = r.teachers
        /\ students' = r.students
        /\ lessons' = r.lessons
        /\ last' = Call("delete_teacher", 0, id, 0, 0, 0, today, lessons, nextId, TRUE, "", None)
        /\ UNCHANGED <<nextId, today, concVars, negVars>>

\* session.delete on a student that is in the table.
DeleteStudent(id) ==
    LET r == delete_student(students, lessons, id)
    IN  /\ last = NoCall
        /\ \E x \in students : x.id = id
        /\ students' = r.students
        /\ lessons' = r.lessons
        /\ last' = Call("delete_student", 0, 0, id, 0, 0, today, lessons, nextId, TRUE, "", None)
        /\ UNCHANGED <<nextId, today, concVars, negVars, teachers>>

NextOrm ==
    \/ \E login \in Logins, telegram_id \in TelegramIds : RegisterTeacher(login, telegram_id)
    \/ \E t \in 1..MaxOrmId : RegisterStudent(t)
    \/ \E t \in 1..MaxOrmId, s \in 1..MaxOrmId, tm \in Times : AddLesson(t, s, tm)
    \/ \E id \in 1..MaxOrmId : DeleteTeacher(id)
    \/ \E id \in 1..MaxOrmId : DeleteStudent(id)
    \/ HandlerDone

SpecOrm == InitOrm /\ [][NextOrm]_vars

(* ------------- SpecQuery: the two schedule queries by themselves ------- *)

\* ORDER BY date, time ("date,time"), ORDER BY time ("time"), or none: row
\* a may come before row b.
InOrder(by, a, b) ==
    IF by = "date,time" THEN a.date < b.date \/ (a.date = b.date /\ a.time <= b.time)
    ELSE IF by = "time" THEN a.time <= b.time
    ELSE TRUE

\* The results a query can give for the rows it selects and its ORDER BY:
\* every sequence that holds each selected row once, in an order the ORDER
\* BY allows (rows equal on the ordering columns come in either order).
OrderedBy(rows, by) ==
    {q \in [1..Cardinality(rows) -> rows] :
        /\ \A i, j \in 1..Cardinality(rows) : i /= j => q[i] /= q[j]
        /\ \A i, j \in 1..Cardinality(rows) : i < j => InOrder(by, q[i], q[j])}

\* Variant of get_future_lessons that leaves today's lessons out.
get_future_lessons_after_today(ls, now, student_id) ==
    OrderedBy({l \in ls : l.student_id = student_id /\ l.date > now}, "date,time")

\* get_future_lessons: the student's rows dated today or later, by date and
\* time.
get_future_lessons(ls, now, student_id) ==
    OrderedBy({l \in ls : l.student_id = student_id /\ l.date >= now}, "date,time")

\* Variant of get_lessons_by_date with no ORDER BY (rows in any order).
get_lessons_by_date_unordered(ls, teacher_id, lesson_date) ==
    OrderedBy({l \in ls : l.teacher_id = teacher_id /\ l.date = lesson_date}, "")

\* get_lessons_by_date: the teacher's rows on the date, by time.
get_lessons_by_date(ls, teacher_id, lesson_date) ==
    OrderedBy({l \in ls : l.teacher_id = teacher_id /\ l.date = lesson_date}, "time")

\* A handler calls get_future_lessons and gets its list.
GetFutureLessons(s) ==
    /\ last = NoCall
    /\ \E q \in get_future_lessons(lessons, today, s) :
          last' = Call("get_future_lessons", 0, 0, s, 0, 0, today, lessons, nextId, TRUE, "", Some(q))
    /\ UNCHANGED <<lessons, nextId, today, concVars, negVars, ormVars>>

\* A handler calls get_lessons_by_date and gets its list.
GetLessonsByDate(t, d) ==
    /\ last = NoCall
    /\ \E q \in get_lessons_by_date(lessons, t, d) :
          last' = Call("get_lessons_by_date", 0, t, 0, d, 0, today, lessons, nextId, TRUE, "", Some(q))
    /\ UNCHANGED <<lessons, nextId, today, concVars, negVars, ormVars>>

NextQuery ==
    \/ \E s \in Students : GetFutureLessons(s)
    \/ \E t \in Teachers, d \in Dates : GetLessonsByDate(t, d)
    \/ HandlerDone

SpecQuery == InitCheck /\ [][NextQuery]_vars

(* --------- SpecClock: service calls at a moment of the day ------------ *)

\* The hours of the day at which calls are made: one before and one after
\* the hours lessons are given at.
ClockHours == {14, 17}

\* datetime.now(), and the .date() of it that the services compare with.
DateTime(d, h) == [date |-> d, hour |-> h]
now_date(dt) == dt.date

\* Variant of the create call that compares date and hour of the lesson
\* with the moment of the call.
create_at_comparing_datetime(h, t, s, d, tm) ==
    LET r == create_lesson(lessons, nextId, now_date(DateTime(today, h)), t, s, d, tm)
        past == d = today /\ tm < h
    IN  /\ last = NoCall
        /\ r.nextId <= MaxId + 1
        /\ lessons' = IF past THEN lessons ELSE r.lessons
        /\ nextId' = IF past THEN nextId ELSE r.nextId
        /\ last' = Call("create", 0, t, s, d, tm, DateTime(today, h), lessons, nextId, r.ok /\ ~past, IF past THEN MsgPastCreate ELSE r.msg, None)
        /\ UNCHANGED <<today, concVars, negVars, ormVars>>

\* create_lesson called at hour h of today.
CreateAt(h, t, s, d, tm) ==
    LET r == create_lesson(lessons, nextId, now_date(DateTime(today, h)), t, s, d, tm)
    IN  /\ last = NoCall
        /\ r.nextId <= MaxId + 1
        /\ lessons' = r.lessons
        /\ nextId' = r.nextId
        /\ last' = Call("create", 0, t, s, d, tm, DateTime(today, h), lessons, nextId, r.ok, r.msg, None)
        /\ UNCHANGED <<today, concVars, negVars, ormVars>>

\* reschedule_lesson called at hour h of today.
RescheduleAt(h, id, tm) ==
    LET r == reschedule_lesson(lessons, now_date(DateTime(today, h)), id, tm)
    IN  /\ last = NoCall
        /\ lessons' = r.lessons
        /\ last' = Call("reschedule", id, 0, 0, 0, tm, DateTime(today, h), lessons, nextId, r.ok, r.msg, None)
        /\ UNCHANGED <<nextId, today, concVars, negVars, ormVars>>

NextClock ==
    \/ \E h \in ClockHours, t \in Teachers, s \in Students, d \in Dates, tm \in Times : CreateAt(h, t, s, d, tm)
    \/ \E h \in ClockHours, id \in Ids, tm \in Times : RescheduleAt(h, id, tm)
    \/ HandlerDone
    \/ Tick

SpecClock == Init /\ [][NextClock]_vars

(* ------------------------------ properties --------------------------- *)

\* Two rows hold the same organizer slot / the same counterpart slot.
SameTeacherSlot(a, b) ==
    a.teacher_id = b.teacher_id /\ a.date = b.date /\ a.time = b.time
SameStudentSlot(a, b) ==
    a.student_id = b.student_id /\ a.date = b.date /\ a.time = b.time

\* Some Booking of ls other than `except` holds the slot of the teacher / of
\* the student at (d, tm).
TeacherOccupied(ls, t, d, tm, except) ==
    \E l \in ls : l.id /= except /\ l.teacher_id = t /\ l.date = d /\ l.time = tm
StudentOccupied(ls, s, d, tm, except) ==
    \E l \in ls : l.id /= except /\ l.student_id = s /\ l.date = d /\ l.time = tm

SlotConflictMsgs == {MsgTeacherConflict, MsgStudentConflict}

\* The Booking a reschedule or cancel call addressed, as it was before the call.
Target == LessonById(last.before, last.lesson_id)

\* C1: with the calls run one after another (create, reschedule, cancel in any
\* order), no two distinct Bookings ever share (organizer, date, time) or
\* (counterpart, date, time).
C1_NoDoubleBooking ==
    \A a \in lessons, b \in lessons :
        a /= b => ~SameTeacherSlot(a, b) /\ ~SameStudentSlot(a, b)

\* C1 witness: two Bookings stand side by side in one (date, time) slot, for
\* different organizers and counterparts, a third one was cancelled earlier,
\* and the call just made is a create or reschedule into that slot that was
\* refused for a conflict.
C1_Witness ==
    /\ \E a \in lessons, b \in lessons :
          a /= b /\ a.date = b.date /\ a.time = b.time
    /\ Cardinality(lessons) < nextId - 1
    /\ last.op \in {"create", "reschedule"}
    /\ ~last.ok /\ last.msg \in SlotConflictMsgs

\* C2: under sessions that interleave their conflict check and their commit,
\* every committed table still has no two distinct Bookings in one organizer
\* slot or one counterpart slot.
C2_NoDoubleBookingConcurrent ==
    \A a \in lessons, b \in lessons :
        a.id /= b.id => ~SameTeacherSlot(a, b) /\ ~SameStudentSlot(a, b)

\* C3: a create whose commit step runs when the slot has meanwhile been taken
\* (both sessions passed the check; this one lost the race) does not succeed:
\* it reports a slot conflict and writes nothing.
C3_RaceLoserAborted ==
    [][\A p \in Procs :
         (/\ CommitCreate(p)
          /\ \/ TeacherOccupied(lessons, req[p].teacher_id, req[p].date,
                                req[p].time, 0)
             \/ StudentOccupied(lessons, req[p].student_id, req[p].date,
                                req[p].time, 0))
         => /\ ~res'[p].ok
            /\ res'[p].msg \in SlotConflictMsgs
            /\ lessons' = lessons]_vars

\* C4: a create with a date before today fails with the past-date message,
\* returns no Booking and leaves the table and the key counter as they were.
C4_PastCreateRejected ==
    (last.op = "create" /\ last.date < last.now)
    => /\ ~last.ok
       /\ last.msg = MsgPastCreate
       /\ last.ret = None
       /\ lessons = last.before
       /\ nextId = last.next_id

\* C4 witness: a create for a past date was refused while the table holds a
\* Booking and the slot asked for is free.
C4_Witness ==
    /\ last.op = "create" /\ last.date < last.now
    /\ last.msg = MsgPastCreate
    /\ lessons /= {}
    /\ ~TeacherOccupied(lessons, last.teacher_id, last.date, last.time, 0)
    /\ ~StudentOccupied(lessons, last.student_id, last.date, last.time, 0)

\* C5: a create for a date that is not past, whose organizer slot or
\* counterpart slot is held by an existing Booking, fails with a slot-conflict
\* message, returns no Booking and leaves the table as it was.
C5_ConflictCreateRejected ==
    (/\ last.op = "create"
     /\ last.date >= last.now
     /\ \/ TeacherOccupied(last.before, last.teacher_id, last.date, last.time, 0)
        \/ StudentOccupied(last.before, last.student_id, last.date, last.time, 0))
    => /\ ~last.ok
       /\ last.msg \in SlotConflictMsgs
       /\ last.ret = None
       /\ lessons = last.before
       /\ nextId = last.next_id

\* C5 witness: a create was refused although the organizer's slot was free,
\* because the counterpart's slot was held.
C5_Witness ==
    /\ last.op = "create" /\ last.date >= last.now
    /\ ~TeacherOccupied(last.before, last.teacher_id, last.date, last.time, 0)
    /\ StudentOccupied(last.before, last.student_id, last.date, last.time, 0)
    /\ ~last.ok

\* C6: a create succeeds exactly when its date is not past and neither slot
\* is held; a success adds one Booking with the given organizer, counterpart,
\* date and time under an id no Booking had, returns it, and leaves every
\* other Booking as it was; a failure changes nothing.
C6_CreateSucceedsIff ==
    last.op = "create"
    => /\ last.ok <=>
            (/\ last.date >= last.now
             /\ ~TeacherOccupied(last.before, last.teacher_id, last.date,
                                 last.time, 0)
             /\ ~StudentOccupied(last.before, last.student_id, last.date,
                                 last.time, 0))
       /\ last.ok =>
            \E id \in Ids :
               LET new == Lesson(id, last.date, last.time, last.teacher_id,
                                 last.student_id)
               IN  /\ LessonById(last.before, id) = {}
                   /\ lessons = last.before \cup {new}
                   /\ last.ret /= None
                   /\ last.ret[1].row = new
       /\ ~last.ok => lessons = last.before /\ last.ret = None

\* C6 witness: a create succeeded although the same two parties already had a
\* Booking at another time of that day and a Booking at that time on another
\* day.
C6_Witness ==
    /\ last.op = "create" /\ last.ok
    /\ \E l \in last.before :
          /\ l.teacher_id = last.teacher_id /\ l.student_id = last.student_id
          /\ l.date = last.date /\ l.time /= last.time
    /\ \E l \in last.before :
          /\ l.teacher_id = last.teacher_id /\ l.student_id = last.student_id
          /\ l.date /= last.date /\ l.time = last.time

\* The slot test of C7 for a call on organizer t and counterpart s at (d, tm)
\* that leaves Booking `except` out: an occupied organizer slot gives the
\* organizer message, and the counterpart message is given exactly when only
\* the counterpart slot is occupied.
OrganizerFirst(t, s, d, tm, except) ==
    /\ TeacherOccupied(last.before, t, d, tm, except)
         => last.msg = MsgTeacherConflict
    /\ last.msg = MsgStudentConflict
         <=> (/\ ~TeacherOccupied(last.before, t, d, tm, except)
              /\ StudentOccupied(last.before, s, d, tm, except))

\* C7: conflicts are reported organizer first. A create (date not past) or a
\* reschedule (Booking found, not past) whose organizer slot is held reports
\* the organizer conflict, also when the counterpart slot is held too; the
\* counterpart conflict is reported only when the organizer slot is free and
\* the counterpart slot is held.
C7_OrganizerFirst ==
    /\ (last.op = "create" /\ last.date >= last.now)
         => OrganizerFirst(last.teacher_id, last.student_id, last.date,
                           last.time, 0)
    /\ last.op = "reschedule"
         => \A l \in Target :
               l.date >= last.now
               => OrganizerFirst(l.teacher_id, l.student_id, l.date,
                                 last.time, l.id)

\* C7 witness: a reschedule was refused while, at the requested time, one
\* other Booking held its organizer's slot and a different one held its
\* counterpart's slot.
C7_Witness ==
    /\ last.op = "reschedule" /\ ~last.ok
    /\ \E l \in Target :
          /\ l.date >= last.now
          /\ \E a \in last.before, b \in last.before :
                /\ a.id /= l.id /\ b.id /= l.id /\ a.id /= b.id
                /\ a.teacher_id = l.teacher_id /\ b.student_id = l.student_id
                /\ a.date = l.date /\ b.date = l.date
                /\ a.time = last.time /\ b.time = last.time

\* C8: a cancel of an existing id succeeds and the Booking is gone afterwards;
\* a cancel of an id that is not in the table fails with not-found, returns
\* no Booking and changes nothing; and no call brings back an id below the
\* key counter, so every later cancel of a cancelled id is such a failure.
C8_CancelNotIdempotent ==
    /\ last.op = "cancel"
         => IF Target /= {}
            THEN last.ok /\ LessonById(lessons, last.lesson_id) = {}
            ELSE /\ ~last.ok
                 /\ last.msg = MsgNotFound
                 /\ last.ret = None
                 /\ lessons = last.before
    /\ \A l \in lessons : l.id < nextId
    /\ last.op /= "none"
         => \A id \in Ids :
               (id < last.next_id /\ LessonById(last.before, id) = {})
               => LessonById(lessons, id) = {}

\* C8 witness: a cancel of an id that had been handed out and cancelled
\* earlier has just failed with not-found.
C8_Witness ==
    /\ last.op = "cancel" /\ ~last.ok /\ last.msg = MsgNotFound
    /\ last.lesson_id < last.next_id

\* C9: a successful cancel returns the Booking as it was before the delete
\* (id, organizer, counterpart, date, time), the returned value still gives
\* access to the organizer and the counterpart after the commit, and exactly
\* that Booking is removed.
C9_CancelReturnsUsableSnapshot ==
    (last.op = "cancel" /\ last.ok)
    => /\ last.ret /= None
       /\ \E l \in Target :
             /\ last.ret[1].row = l
             /\ lessons = last.before \ {l}
       /\ CanReadRelations(last.ret[1])

\* C10: a successful reschedule keeps the Booking's id, organizer, counterpart
\* and date, sets its time to the new time, and creates, deletes or modifies
\* no other Booking.
C10_ReschedulePreservesIdentity ==
    (last.op = "reschedule" /\ last.ok)
    => \E l \in Target :
          /\ lessons = (last.before \ {l})
                          \cup {Lesson(l.id, l.date, last.time, l.teacher_id,
                                       l.student_id)}
          /\ nextId = last.next_id

\* C10 witness: a reschedule has moved a Booking to another time while two
\* other Bookings exist, one of them on the same day at the time it left.
C10_Witness ==
    /\ last.op = "reschedule" /\ last.ok
    /\ \E l \in Target :
          /\ l.time /= last.time
          /\ \E o \in last.before :
                o.id /= l.id /\ o.date = l.date /\ o.time = l.time
    /\ Cardinality(lessons) >= 3

\* C11 as stated: a reschedule of an existing Booking to the time it already
\* has succeeds in every reachable state.
C11_SameTimeAlwaysSucceeds ==
    (last.op = "reschedule" /\ \E l \in Target : l.time = last.time)
    => last.ok

\* C11: a reschedule of an existing Booking whose date is not before today to
\* the time it already has succeeds, whatever else is in the table (the
\* conflict check leaves the Booking itself out), and leaves the table as it
\* was.
C11_SameTimeSucceedsIfNotPast ==
    (/\ last.op = "reschedule"
     /\ \E l \in Target : l.time = last.time /\ l.date >= last.now)
    => /\ last.ok
       /\ last.msg = MsgRescheduled
       /\ lessons = last.before

\* C11 witness: a Booking that is not past was rescheduled to its own time
\* with success while another Booking of the same organizer and one of the
\* same counterpart stand on the same day at other times.
C11_Witness ==
    /\ last.op = "reschedule" /\ last.ok
    /\ \E l \in Target :
          /\ l.time = last.time /\ l.date >= last.now
          /\ \E a \in last.before, b \in last.before :
                /\ a.id /= l.id /\ b.id /= l.id /\ a.id /= b.id
                /\ a.teacher_id = l.teacher_id /\ a.date = l.date
                /\ b.student_id = l.student_id /\ b.date = l.date

\* C12: a reschedule of a Booking whose date is before today fails with the
\* past-booking message for every new time, whether or not that time is free,
\* and leaves the table (the Booking's time included) as it was.
C12_PastRescheduleRejected ==
    (last.op = "reschedule" /\ \E l \in Target : l.date < last.now)
    => /\ ~last.ok
       /\ last.msg = MsgPastReschedule
       /\ lessons = last.before

\* C12 witness: a reschedule of a past Booking to another time, free for both
\* of its parties, was refused.
C12_Witness ==
    /\ last.op = "reschedule" /\ ~last.ok
    /\ \E l \in Target :
          /\ l.date < last.now /\ l.time /= last.time
          /\ ~TeacherOccupied(last.before, l.teacher_id, l.date, last.time, l.id)
          /\ ~StudentOccupied(last.before, l.student_id, l.date, last.time, l.id)
    /\ Cardinality(lessons) >= 2

\* C13 as stated: a reschedule of an id that is not in the table fails with
\* not-found; a reschedule of an existing Booking, when another Booking holds
\* its organizer's or its counterpart's slot at the new time, fails with a
\* slot-conflict message; both failures leave the table as it was.
C13_RescheduleFailures ==
    last.op = "reschedule"
    => /\ Target = {}
            => ~last.ok /\ last.msg = MsgNotFound /\ lessons = last.before
       /\ \A l \in Target :
             (\/ TeacherOccupied(last.before, l.teacher_id, l.date, last.time, l.id)
              \/ StudentOccupied(last.before, l.student_id, l.date, last.time, l.id))
             => /\ ~last.ok
                /\ last.msg \in SlotConflictMsgs
                /\ lessons = last.before

\* C13: a reschedule of an id that is not in the table fails with not-found;
\* a reschedule of an existing Booking whose date is not before today, when
\* another Booking holds its organizer's or its counterpart's slot at the new
\* time, fails with a slot-conflict message; both failures leave the table as
\* it was.
C13_RescheduleFailuresNotPast ==
    last.op = "reschedule"
    => /\ Target = {}
            => ~last.ok /\ last.msg = MsgNotFound /\ lessons = last.before
       /\ \A l \in Target :
             (/\ l.date >= last.now
              /\ \/ TeacherOccupied(last.before, l.teacher_id, l.date, last.time, l.id)
                 \/ StudentOccupied(last.before, l.student_id, l.date, last.time, l.id))
             => /\ ~last.ok
                /\ last.msg \in SlotConflictMsgs
                /\ lessons = last.before

\* C13 witness: a reschedule was refused because another Booking of the same
\* counterpart, with a different organizer, holds the new time.
C13_Witness ==
    /\ last.op = "reschedule" /\ ~last.ok
    /\ \E l \in Target :
          /\ l.date >= last.now
          /\ ~TeacherOccupied(last.before, l.teacher_id, l.date, last.time, l.id)
          /\ StudentOccupied(last.before, l.student_id, l.date, last.time, l.id)

\* C14: check_time_conflict reports a conflict exactly when some Booking of
\* the table other than the excluded one holds the organizer's slot or the
\* counterpart's slot at the given date and time, for every table and every
\* arguments, and the call leaves the table and the key counter as they were.
C14_CheckerIff ==
    last.op = "check"
    => /\ ~last.ok <=>
            \/ TeacherOccupied(last.before, last.teacher_id, last.date, last.time, last.lesson_id)
            \/ StudentOccupied(last.before, last.student_id, last.date, last.time, last.lesson_id)
       /\ ~last.ok => last.msg \in SlotConflictMsgs
       /\ lessons = last.before
       /\ nextId = last.next_id

\* C14 witness: the check found no conflict although the excluded Booking
\* holds both slots asked about and another Booking holds the organizer's
\* slot on another day.
C14_Witness ==
    /\ last.op = "check" /\ last.ok /\ last.lesson_id /= 0
    /\ \E l \in last.before :
          /\ l.id = last.lesson_id
          /\ l.teacher_id = last.teacher_id /\ l.student_id = last.student_id
          /\ l.date = last.date /\ l.time = last.time
    /\ \E o \in last.before :
          /\ o.id /= last.lesson_id /\ o.teacher_id = last.teacher_id
          /\ o.date /= last.date /\ o.time = last.time

\* C15: the date never moves back; a create that succeeds is for a date that
\* is not before the date of the call, and a reschedule that succeeds is of a
\* Booking whose date is not before the date of the call; and a Booking whose
\* date is before the current date stays in the table with all its columns
\* through every step, the passing of a day included, unless that step is a
\* successful cancel of its id.
C15_TemporalValidity ==
    [][/\ today' >= today
       /\ (last' /= last /\ last'.op = "create" /\ last'.ok)
            => \E l \in lessons' \ lessons : l.date >= today
       /\ (last' /= last /\ last'.op = "reschedule" /\ last'.ok)
            => \A l \in LessonById(lessons, last'.lesson_id) : l.date >= today
       /\ \A l \in lessons :
             l.date < today'
             => \/ l \in lessons'
                \/ /\ last' /= last /\ last'.op = "cancel" /\ last'.ok
                   /\ last'.lesson_id = l.id]_vars

\* C15 witness: on a later day a Booking made for the first day is still in
\* the table, now past, and a reschedule of another Booking has just
\* succeeded.
C15_Witness ==
    /\ last.op = "reschedule" /\ last.ok
    /\ \E l \in lessons : l.date < today /\ l.id /= last.lesson_id
    /\ \A l \in Target : l.date >= today /\ l.time /= last.time

\* The step is the run of a handler of the bot (it starts with no call being
\* handled and leaves the handler's record in last).
HandlerStep(op) == last = NoCall /\ last'.op = op

\* C16: a student's conversation changes state only one step forward along
\* no conversation -> SELECT_LESSON -> REASON -> NEW_TIME -> ended, each step
\* by the handler of that state, or ends by /cancel; user_data changes only
\* by select_lesson in SELECT_LESSON (the lesson) and reschedule_reason in
\* REASON (the reason); a request reaches the teacher only in a step of
\* confirm_reschedule taken in NEW_TIME, carrying the lesson chosen, the
\* reason given and the hour pressed; and a request leaves the teacher's
\* open requests only by an accept or a decline.
C16_NegotiationOrder ==
    [][/\ \A s \in Students :
             conv'[s] /= conv[s]
             => /\ last'.student_id = s
                /\ \/ conv[s] = "END" /\ conv'[s] = "SELECT_LESSON" /\ HandlerStep("request_reschedule")
                   \/ conv[s] = "SELECT_LESSON" /\ conv'[s] = "REASON" /\ HandlerStep("select_lesson")
                   \/ conv[s] = "REASON" /\ conv'[s] = "NEW_TIME" /\ HandlerStep("reschedule_reason")
                   \/ conv[s] = "NEW_TIME" /\ conv'[s] = "END" /\ HandlerStep("confirm_reschedule")
                   \/ conv'[s] = "END" /\ HandlerStep("cancel")
       /\ \A s \in Students :
             user_data'[s] /= user_data[s]
             => \/ /\ conv[s] = "SELECT_LESSON" /\ conv'[s] = "REASON"
                   /\ user_data'[s].reason = user_data[s].reason
                   /\ user_data'[s].lesson_id \in keyboard[s]
                \/ /\ conv[s] = "REASON" /\ conv'[s] = "NEW_TIME"
                   /\ user_data'[s].lesson_id = user_data[s].lesson_id
                   /\ user_data'[s].reason \in Reasons
       /\ \A s \in Students :
             /\ conv[s] \in {"REASON", "NEW_TIME"} => user_data[s].lesson_id /= 0
             /\ conv[s] = "NEW_TIME" => user_data[s].reason \in Reasons
       /\ \A q \in BagToSet(requests') :
             CopiesIn(q, requests') > CopiesIn(q, requests)
             => /\ HandlerStep("confirm_reschedule")
                /\ conv[last'.student_id] = "NEW_TIME"
                /\ q = Request(user_data[last'.student_id].lesson_id, last'.time, user_data[last'.student_id].reason, last'.student_id)
                /\ requests' = requests (+) SetToBag({q})
       /\ \A q \in BagToSet(requests) :
             CopiesIn(q, requests') < CopiesIn(q, requests)
             => /\ HandlerStep("accept_reschedule") \/ HandlerStep("decline_reschedule")
                /\ requests' = requests (-) SetToBag({q})]_vars

\* C16 witness: the teacher has just accepted a request with success while
\* another student's conversation stands at NEW_TIME.
C16_Witness ==
    /\ last.op = "accept_reschedule" /\ last.ok
    /\ \E s \in Students : s /= last.student_id /\ conv[s] = "NEW_TIME"

\* C17: select_lesson moves the conversation on to REASON only when the id
\* pressed is a lesson of that student dated today or later; for any other
\* id (a lesson that is gone, past, or of another student) the conversation
\* stays in SELECT_LESSON.
C17_SelectOnlyOwnFuture ==
    last.op = "select_lesson"
    => IF \E l \in Target : l.student_id = last.student_id /\ l.date >= last.now
       THEN conv[last.student_id] = "REASON"
       ELSE conv[last.student_id] = "SELECT_LESSON"

\* C18: confirm_reschedule, when the lesson chosen is dated before today,
\* answers that a past lesson cannot be rescheduled and ends the
\* conversation; no request goes to the teacher and the table is unchanged.
C18_PastAbortsNegotiation ==
    [][(/\ HandlerStep("confirm_reschedule")
        /\ \E l \in LessonById(lessons, last'.lesson_id) : l.date < today)
       => /\ ~last'.ok
          /\ last'.msg = BotPastReschedule
          /\ conv'[last'.student_id] = "END"
          /\ requests' = requests
          /\ lessons' = lessons
          /\ sent' = <<>>]_vars

\* C18 witness: a student chose a lesson, the day passed, and the hour then
\* pressed, free for both parties, was answered with the past-lesson message.
C18_Witness ==
    /\ last.op = "confirm_reschedule" /\ last.msg = BotPastReschedule
    /\ \E l \in Target :
          /\ l.student_id = last.student_id /\ l.time /= last.time
          /\ ~TeacherOccupied(lessons, l.teacher_id, l.date, last.time, l.id)
          /\ ~StudentOccupied(lessons, l.student_id, l.date, last.time, l.id)

\* C19: confirm_reschedule, when the lesson chosen exists and is not dated
\* before today, sends the request to the teacher for every hour pressed, an
\* hour held by another lesson or the lesson's own hour included.
C19_AnyTimeReachesTeacher ==
    [][(/\ HandlerStep("confirm_reschedule")
        /\ \E l \in LessonById(lessons, last'.lesson_id) : l.date >= today)
       => /\ last'.ok
          /\ requests' = requests (+) SetToBag({Request(last'.lesson_id, last'.time, user_data[last'.student_id].reason, last'.student_id)})]_vars

\* C20: an accept whose reschedule_lesson succeeds takes the request off the
\* teacher's open requests, leaves the lesson at the hour of the request,
\* and sends the lesson's student, who made the request, one message
\* carrying the lesson's date and that hour; and no handler sends such a
\* message except that accept, the lesson standing at the hour the message
\* carries.
C20_AcceptCommitsThenNotifies ==
    [][/\ (HandlerStep("accept_reschedule") /\ last'.ok)
            => /\ last'.msg = BotRescheduled
               /\ \E q \in BagToSet(requests) :
                     /\ q.lesson_id = last'.lesson_id /\ q.hour = last'.time
                     /\ requests' = requests (-) SetToBag({q})
               /\ \E l \in LessonById(lessons', last'.lesson_id) :
                     /\ l.time = last'.time
                     /\ l.student_id = last'.student_id
                     /\ Len(sent') = 1
                     /\ sent'[1].kind = "rescheduled"
                     /\ sent'[1].to = l.student_id
                     /\ sent'[1].args = <<l.date, last'.time>>
       /\ \A i \in 1..Len(sent') :
             sent'[i].kind = "rescheduled"
             => /\ HandlerStep("accept_reschedule") /\ last'.ok
                /\ \E l \in LessonById(lessons', last'.lesson_id) :
                      sent'[i].args = <<l.date, l.time>>]_vars

\* C20 witness: an accept has moved a lesson to another hour and the message
\* to its student was sent, while a second request is still open.
C20_Witness ==
    /\ last.op = "accept_reschedule" /\ last.ok
    /\ \E l \in Target : l.time /= last.time
    /\ Len(sent) = 1 /\ sent[1].kind = "rescheduled"
    /\ requests /= EmptyBag

\* C21: an accept of a request whose lesson is there and not past, pressed
\* when the hour of the request is held that day by another lesson of the
\* teacher or of the student, fails with reschedule_lesson's conflict
\* message, which is what the teacher is shown; the table is unchanged, the
\* student gets no message, the request leaves the teacher's open requests
\* and nothing else of the negotiations moves.
C21_AcceptAfterSlotTaken ==
    [][(/\ HandlerStep("accept_reschedule")
        /\ \E l \in LessonById(lessons, last'.lesson_id) :
              /\ l.date >= today
              /\ \/ TeacherOccupied(lessons, l.teacher_id, l.date, last'.time, l.id)
                 \/ StudentOccupied(lessons, l.student_id, l.date, last'.time, l.id))
       => /\ ~last'.ok
          /\ last'.msg \in SlotConflictMsgs
          /\ lessons' = lessons
          /\ sent' = <<>>
          /\ \E q \in BagToSet(requests) :
                /\ q.lesson_id = last'.lesson_id /\ q.hour = last'.time
                /\ requests' = requests (-) SetToBag({q})
          /\ UNCHANGED <<conv, user_data, keyboard>>]_vars

\* C21 witness: the accept was refused for a conflict with a lesson entered
\* after the lesson of the request (a higher id), the hour having been free
\* when the request was made.
C21_Witness ==
    /\ last.op = "accept_reschedule" /\ ~last.ok
    /\ last.msg \in SlotConflictMsgs
    /\ lessons = last.before
    /\ \E l \in Target, o \in last.before :
          /\ o.id > l.id /\ o.date = l.date /\ o.time = last.time
          /\ l.time /= last.time

\* C22: every decline of an open request takes the request off the
\* teacher's open requests, leaves the table unchanged and sends the
\* student of the request one decline message.
C22_DeclineAlwaysNotifies ==
    [][HandlerStep("decline_reschedule")
       => /\ \E q \in BagToSet(requests) :
                /\ q.lesson_id = last'.lesson_id
                /\ requests' = requests (-) SetToBag({q})
          /\ lessons' = lessons
          /\ Len(sent') = 1
          /\ sent'[1].kind = "declined"
          /\ sent'[1].to = last'.student_id]_vars

\* C22, with the lookup of decline_reschedule taken into account: every
\* decline takes the request off the teacher's open requests and leaves the
\* table and the conversations unchanged; when the lesson of the request is
\* still in the table its student is sent one decline message and the
\* teacher is shown that the request was declined; when it is not, nobody is
\* sent anything and the teacher is shown that the lesson was not found.
C22_DeclineNotifiesIfLessonThere ==
    [][HandlerStep("decline_reschedule")
       => /\ \E q \in BagToSet(requests) :
                /\ q.lesson_id = last'.lesson_id
                /\ requests' = requests (-) SetToBag({q})
          /\ lessons' = lessons
          /\ UNCHANGED <<conv, user_data, keyboard>>
          /\ IF LessonById(lessons, last'.lesson_id) /= {}
             THEN /\ last'.msg = BotDeclined
                  /\ Len(sent') = 1
                  /\ sent'[1].kind = "declined"
                  /\ \A l \in LessonById(lessons, last'.lesson_id) :
                        sent'[1].to = l.student_id /\ l.student_id = last'.student_id
             ELSE /\ last'.msg = BotNotFound
                  /\ sent' = <<>>]_vars

\* C22 witness: a request to move a lesson to another hour was declined, the
\* lesson stands as it was and the decline message went to its student.
C22_Witness ==
    /\ last.op = "decline_reschedule" /\ last.ok
    /\ lessons = last.before
    /\ \E l \in Target : l \in lessons /\ l.student_id = last.student_id
    /\ Len(sent) = 1 /\ sent[1].kind = "declined" /\ sent[1].to = last.student_id

\* C23: the text of a decline message carries the hour the lesson of the
\* declined request stands at.
C23_DeclineCarriesTime ==
    \A i \in 1..Len(sent) :
        sent[i].kind = "declined"
        => \E l \in LessonById(lessons, last.lesson_id) :
              \E k \in 1..Len(sent[i].args) : sent[i].args[k] = l.time

\* C24: a /cancel of a student leaves the table unchanged and ends what the
\* student has under way: sent inside a conversation it ends the
\* conversation; sent when the student's request awaits the teacher it
\* withdraws the request, so that no accept can follow.
C24_CancelAborts ==
    [][HandlerStep("cancel")
       => /\ lessons' = lessons
          /\ conv'[last'.student_id] = "END"
          /\ conv[last'.student_id] = "END"
             => \A q \in BagToSet(requests') : q.student /= last'.student_id]_vars

\* C25: of the requests awaiting the teacher no two are for the same
\* lesson.
C25_OneNegotiationPerBooking ==
    \A q \in BagToSet(requests) :
        /\ CopiesIn(q, requests) = 1
        /\ \A p \in BagToSet(requests) : p.lesson_id = q.lesson_id => p = q

\* C26: once a request has been answered (accepted with or without success,
\* or declined), an accept or decline handled for that same request changes
\* no lesson and sends nothing.
C26_ResolvedIsTerminal ==
    [][(/\ last.op \in {"accept_reschedule", "decline_reschedule"}
        /\ last'.op \in {"accept_reschedule", "decline_reschedule"})
       => lessons' = lessons /\ sent' = <<>>]_vars

\* C27: a notification made after a committed create or reschedule (or
\* cancel) lets no exception out; it returns True exactly when the message
\* was sent; and when send_message failed it returned False with nothing
\* sent and the table is as the service call committed it: the created
\* lesson is in it, the rescheduled lesson stands at the new hour, every
\* other row is as before the call.
C27_NotifyBestEffort ==
    last.op \in NotifyOps
    => /\ last.ret = None
       /\ last.ok <=> sent /= <<>>
       /\ last.msg = LogSendError => ~last.ok
       /\ last.op = "notify_created"
          => /\ lessons \ last.before = {Lesson(last.next_id, last.date, last.time, last.teacher_id, last.student_id)}
             /\ last.before \subseteq lessons
       /\ last.op = "notify_rescheduled"
          => /\ \A l \in Target : [l EXCEPT !.time = last.time] \in lessons
             /\ \A l \in last.before : l.id /= last.lesson_id => l \in lessons
             /\ Cardinality(lessons) = Cardinality(last.before)
       /\ last.op = "notify_cancelled"
          => lessons = last.before \ Target

\* C27 witness: a lesson was moved to another hour, the message to its
\* student could not be delivered, and the lesson stands at the new hour.
C27_Witness ==
    /\ last.op = "notify_rescheduled"
    /\ last.msg = LogSendError /\ ~last.ok /\ sent = <<>>
    /\ \E l \in Target : l.time /= last.time /\ [l EXCEPT !.time = last.time] \in lessons

\* C28: whenever a handler has sent a created, cancelled or rescheduled
\* message, its service call succeeded and the table holds the committed
\* change the message tells of: the new lesson (absent before the call) on
\* the date and hour of the message, the lesson at its new hour, or the
\* lesson deleted.
C28_NotifyAfterCommit ==
    \A i \in 1..Len(sent) :
        /\ sent[i].kind = "created"
           => /\ last.op = "confirm_lesson" /\ last.ok
              /\ \E l \in lessons \ last.before :
                    l.student_id = sent[i].to /\ sent[i].args = <<l.date, l.time>>
        /\ sent[i].kind = "rescheduled"
           => /\ last.op = "accept_reschedule" /\ last.ok
              /\ \E l \in LessonById(lessons, last.lesson_id) :
                    l.student_id = sent[i].to /\ sent[i].args = <<l.date, l.time>>
        /\ sent[i].kind = "cancelled"
           => /\ last.op = "confirm_cancel_lesson" /\ last.ok
              /\ \E l \in last.before \ lessons :
                    /\ l.id = last.lesson_id
                    /\ l.student_id = sent[i].to /\ sent[i].args = <<l.date, l.time>>

\* C28 witness: confirm_lesson has entered a second lesson and sent its
\* student the created message.
C28_Witness ==
    /\ last.op = "confirm_lesson" /\ last.ok
    /\ last.before /= {}
    /\ Len(sent) = 1 /\ sent[1].kind = "created"
    /\ \E l \in lessons \ last.before : sent[1].args = <<l.date, l.time>>

\* C29: a request that awaits the teacher stays open through every step
\* that is not the teacher's accept or decline (the day changing, any
\* handler run for a student, the teacher entering or cancelling lessons),
\* and every accept or decline closes the request it answers. Nothing in the
\* specification obliges the teacher to answer.
C29_NoTimeout ==
    [][/\ ~(HandlerStep("accept_reschedule") \/ HandlerStep("decline_reschedule"))
          => \A q \in BagToSet(requests) : CopiesIn(q, requests') >= CopiesIn(q, requests)
       /\ (HandlerStep("accept_reschedule") \/ HandlerStep("decline_reschedule"))
          => \E q \in BagToSet(requests) :
                /\ q.lesson_id = last'.lesson_id /\ q.hour = last'.time
                /\ q.student = last'.student_id
                /\ requests' = requests (-) SetToBag({q})]_vars

\* C29 witness: a request is still open on a day after the date of its
\* lesson, and its student has since sent /reschedule again.
C29_Witness ==
    /\ last.op = "request_reschedule"
    /\ \E q \in BagToSet(requests) :
          /\ q.student = last.student_id
          /\ \E l \in LessonById(lessons, q.lesson_id) : l.date < today

\* The handlers run for a student in the reschedule conversation.
StudentOps == {"request_reschedule", "select_lesson", "reschedule_reason", "confirm_reschedule", "cancel"}

\* C30: a handler run for one student in the reschedule conversation leaves
\* the conversation state, the user_data and the prompt of every other
\* student as they were; and the request a confirm_reschedule sends carries
\* the lesson and the reason in that student's own user_data, the hour that
\* student pressed, and a lesson of that student.
C30_SessionScoped ==
    [][(last = NoCall /\ last'.op \in StudentOps)
       => /\ \A o \in Students \ {last'.student_id} :
                conv'[o] = conv[o] /\ user_data'[o] = user_data[o] /\ keyboard'[o] = keyboard[o]
          /\ requests' /= requests
             => /\ last'.op = "confirm_reschedule"
                /\ LET own == user_data[last'.student_id]
                   IN  /\ requests' = requests (+) SetToBag({Request(own.lesson_id, last'.time, own.reason, last'.student_id)})
                       /\ \E l \in LessonById(lessons, own.lesson_id) : l.student_id = last'.student_id]_vars

\* C30 witness: a student's request has just gone to the teacher with that
\* student's lesson and reason while another student, with another lesson
\* and another reason in user_data, is at the choice of the hour.
C30_Witness ==
    /\ last.op = "confirm_reschedule" /\ last.ok
    /\ \E q \in BagToSet(requests), o \in Students :
          /\ q.student = last.student_id /\ q.lesson_id = last.lesson_id
          /\ q.reason = user_data[last.student_id].reason
          /\ o /= last.student_id /\ conv[o] = "NEW_TIME"
          /\ user_data[o].reason /= q.reason
          /\ user_data[o].lesson_id /= q.lesson_id

\* Every student's teacher and every lesson's teacher and student are rows
\* of their tables.
RefIntegrity ==
    /\ \A s \in students : \E t \in teachers : t.id = s.teacher_id
    /\ \A l \in lessons :
          /\ \E t \in teachers : t.id = l.teacher_id
          /\ \E s \in students : s.id = l.student_id

\* C31: the delete of a teacher takes out of the tables that teacher, the
\* students whose teacher it is, and every lesson of that teacher or of one
\* of those students; and after every step each student and each lesson
\* refers to rows that are in the tables.
C31_DeleteTeacherCascades ==
    [][/\ HandlerStep("delete_teacher")
          => LET id == last'.teacher_id
                 owned == {s \in students : s.teacher_id = id}
             IN  /\ \A t \in teachers' : t.id /= id
                 /\ students' \cap owned = {}
                 /\ \A l \in lessons' :
                       l.teacher_id /= id /\ \A s \in owned : l.student_id /= s.id
       /\ RefIntegrity']_vars

\* C31 witness: a teacher was deleted who had a student, and a lesson which
\* that student had with another teacher went with them.
C31_Witness ==
    /\ last.op = "delete_teacher"
    /\ teachers /= {}
    /\ \E l \in last.before : l.teacher_id /= last.teacher_id /\ l \notin lessons

\* C32: the delete of a student takes out of the tables that student and
\* exactly the lessons of that student; every teacher, every other student
\* and every other lesson stays, and no lesson is left that refers to the
\* deleted student.
C32_DeleteStudentCascades ==
    [][HandlerStep("delete_student")
       => LET id == last'.student_id
          IN  /\ teachers' = teachers
              /\ students' = {s \in students : s.id /= id}
              /\ lessons' = {l \in lessons : l.student_id /= id}
              /\ \A l \in lessons' : l.student_id /= id]_vars

\* C32 witness: a student with a lesson was deleted while the same teacher's
\* other student keeps a lesson.
C32_Witness ==
    /\ last.op = "delete_student"
    /\ \E l \in last.before : l.student_id = last.student_id /\ l \notin lessons
    /\ \E l \in lessons, s \in students, t \in teachers :
          l.student_id = s.id /\ s.teacher_id = t.id /\ l.teacher_id = t.id
    /\ \A a \in last.before, b \in last.before : a.teacher_id = b.teacher_id

\* C33: the list get_future_lessons returns holds, once each, exactly the
\* rows of the student dated today or later (today's included, earlier ones
\* and other students' left out), by date and within a date by time; the
\* table is as it was.
C33_FutureLessons ==
    last.op = "get_future_lessons"
    => LET q == last.ret[1]
       IN  /\ {q[i] : i \in 1..Len(q)} = {l \in last.before : l.student_id = last.student_id /\ l.date >= last.now}
           /\ \A i, j \in 1..Len(q) : i /= j => q[i] /= q[j]
           /\ \A i, j \in 1..Len(q) :
                 i < j => \/ q[i].date < q[j].date
                          \/ q[i].date = q[j].date /\ q[i].time <= q[j].time
           /\ lessons = last.before

\* C33 witness: the student has a lesson dated today, which is listed, and
\* one dated before today, which is not.
C33_Witness ==
    /\ last.op = "get_future_lessons"
    /\ Len(last.ret[1]) = 1 /\ last.ret[1][1].date = last.now
    /\ \E l \in lessons : l.student_id = last.student_id /\ l.date < last.now

\* C34: the list get_lessons_by_date returns holds, once each, exactly the
\* rows of the teacher on the date, by ascending time whatever their
\* primary keys; the table is as it was.
C34_LessonsByDate ==
    last.op = "get_lessons_by_date"
    => LET q == last.ret[1]
       IN  /\ {q[i] : i \in 1..Len(q)} = {l \in last.before : l.teacher_id = last.teacher_id /\ l.date = last.date}
           /\ \A i, j \in 1..Len(q) : i /= j => q[i] /= q[j]
           /\ \A i, j \in 1..Len(q) : i < j => q[i].time <= q[j].time
           /\ lessons = last.before

\* C34 witness: of the two lessons listed the one entered later is the
\* earlier in the day and comes first.
C34_Witness ==
    /\ last.op = "get_lessons_by_date"
    /\ Len(last.ret[1]) = 2
    /\ last.ret[1][1].id > last.ret[1][2].id
    /\ last.ret[1][1].time < last.ret[1][2].time

\* C35: after every step no two teachers have the same login or the same
\* telegram_id; and a registration with a login or a telegram_id that a
\* teacher in the table has is refused, the table staying as it was.
C35_UniqueTeacher ==
    [][/\ \A a \in teachers', b \in teachers' :
             a /= b => a.login /= b.login /\ a.telegram_id /= b.telegram_id /\ a.id /= b.id
       /\ (/\ HandlerStep("register_teacher")
           /\ \E t \in teachers : t.login = last'.ret[1][1] \/ t.telegram_id = last'.ret[1][2])
          => ~last'.ok /\ teachers' = teachers]_vars

\* C35 witness: beside a registered teacher, a registration from the same
\* Telegram account with a login nobody has was refused by the unique
\* constraint.
C35_Witness ==
    /\ last.op = "register_teacher" /\ ~last.ok
    /\ last.msg = IntegrityError
    /\ \A t \in teachers : t.login /= last.ret[1][1]
    /\ \E t \in teachers : t.telegram_id = last.ret[1][2]

\* C36: a handler run for a student in the reschedule conversation
\* (request_reschedule, select_lesson, reschedule_reason,
\* confirm_reschedule, cancel) leaves the lessons table as it was, whatever
\* it answers; and the hour of a lesson changes in no step but an accept
\* whose reschedule_lesson succeeded, for the lesson and to the hour of the
\* request accepted.
C36_StudentStepsWriteNothing ==
    [][/\ (last = NoCall /\ last'.op \in StudentOps)
          => lessons' = lessons /\ nextId' = nextId
       /\ \A a \in lessons, b \in lessons' :
             (a.id = b.id /\ a.time /= b.time)
             => /\ HandlerStep("accept_reschedule") /\ last'.ok
                /\ last'.lesson_id = a.id /\ b.time = last'.time]_vars

\* C36 witness: a second request has just gone to the teacher and the
\* lessons stand as they were before the handler ran.
C36_Witness ==
    /\ last.op = "confirm_reschedule" /\ last.ok
    /\ BagCardinality(requests) = 2
    /\ lessons = last.before /\ lessons /= {}

\* C37: an accept answers one open request, and what it does is fixed by
\* the lesson id and hour of that request alone: on success that lesson
\* stands at that hour and every other lesson is as before, on failure the
\* table is as before; what the student's user_data holds by then plays no
\* part and is left as it is.
C37_AcceptUsesRequestData ==
    [][HandlerStep("accept_reschedule")
       => \E q \in BagToSet(requests) :
             /\ requests' = requests (-) SetToBag({q})
             /\ last'.lesson_id = q.lesson_id /\ last'.time = q.hour
             /\ lessons' = IF last'.ok
                           THEN {IF l.id = q.lesson_id THEN [l EXCEPT !.time = q.hour] ELSE l : l \in lessons}
                           ELSE lessons
             /\ user_data' = user_data]_vars

\* C37 witness: an accept moved the lesson of an earlier request to the
\* hour of that request after the student had chosen another lesson, one
\* of the student's own, in a later conversation.
C37_Witness ==
    /\ last.op = "accept_reschedule" /\ last.ok
    /\ \E l \in Target : l.time /= last.time
    /\ user_data[last.student_id].lesson_id \notin {0, last.lesson_id}
    /\ \E l \in LessonById(lessons, user_data[last.student_id].lesson_id) : l.student_id = last.student_id

\* C38: an accept or a decline of a request whose lesson is no longer in
\* the table (it was cancelled after the request was made; keys are not
\* handed out again) changes no lesson and sends nothing: the accept fails
\* with reschedule_lesson's not-found message, the decline answers that the
\* lesson was not found.
C38_CancelledMeanwhile ==
    (last.op \in {"accept_reschedule", "decline_reschedule"} /\ Target = {})
    => /\ ~last.ok
       /\ lessons = last.before
       /\ sent = <<>>
       /\ last.op = "accept_reschedule" => last.msg = MsgNotFound
       /\ last.op = "decline_reschedule" => last.msg = BotNotFound

\* C38 witness: the teacher pressed Reschedule on a request whose lesson
\* had been cancelled, another lesson being in the table.
C38_Witness ==
    /\ last.op = "accept_reschedule" /\ Target = {}
    /\ last.msg = MsgNotFound
    /\ last.lesson_id < last.next_id
    /\ lessons /= {}

\* C39: an accept pressed on a day after the date of the request's lesson
\* fails with reschedule_lesson's past-lesson message, leaves the table as
\* it was and sends the student nothing.
C39_AcceptAfterDatePassed ==
    (last.op = "accept_reschedule" /\ \E l \in Target : l.date < last.now)
    => /\ ~last.ok
       /\ last.msg = MsgPastReschedule
       /\ lessons = last.before
       /\ sent = <<>>

\* C39 witness: the accept came on a later day than the lesson's date, for
\* an hour that is free for the teacher and for the student.
C39_Witness ==
    /\ last.op = "accept_reschedule" /\ last.msg = MsgPastReschedule
    /\ \E l \in Target :
          /\ l.date < last.now /\ l.time /= last.time
          /\ ~TeacherOccupied(last.before, l.teacher_id, l.date, last.time, l.id)
          /\ ~StudentOccupied(last.before, l.student_id, l.date, last.time, l.id)

\* C40: a create for today's date succeeds at every hour of the day it is
\* called at, whenever the hour asked for is free for the teacher and for
\* the student, an hour that has gone by included; and so does a reschedule
\* of a lesson dated today to an hour free for both.
C40_DateGranularity ==
    /\ (/\ last.op = "create" /\ last.date = last.now.date
        /\ ~TeacherOccupied(last.before, last.teacher_id, last.date, last.time, 0)
        /\ ~StudentOccupied(last.before, last.student_id, last.date, last.time, 0))
       => /\ last.ok
          /\ Lesson(last.next_id, last.date, last.time, last.teacher_id, last.student_id) \in lessons
    /\ (/\ last.op = "reschedule"
        /\ \E l \in Target :
              /\ l.date = last.now.date
              /\ ~TeacherOccupied(last.before, l.teacher_id, l.date, last.time, l.id)
              /\ ~StudentOccupied(last.before, l.student_id, l.date, last.time, l.id))
       => /\ last.ok
          /\ \A l \in Target : [l EXCEPT !.time = last.time] \in lessons

\* C40 witness: at 17:00 a lesson was entered for 15:00 of the same day.
C40_Witness ==
    /\ last.op = "create" /\ last.ok
    /\ last.date = last.now.date /\ last.time < last.now.hour
    /\ \E l \in lessons : l.id = last.next_id /\ l.date = last.date /\ l.time = last.time

====
